---------------------------- MODULE Spec2Model ----------------------------
(***************************************************************************)
(* Model of the am-i-genki badge service: the freshness policy             *)
(* (shouldUpdateCache), the status classifier (getHealthStatus), the       *)
(* aggregation engine (getCommitCount / getOrgRepoCommits) and the         *)
(* stale-while-revalidate cache controller (the /badge handler and         *)
(* updateCacheInBackground).                                               *)
(*                                                                         *)
(* Time is counted in seconds since 1970-01-01T00:00:00Z; the source       *)
(* counts milliseconds, so every duration of the source is divided by      *)
(* 1000 here (24 * 60 * 60 * 1000 ms = 86400 s).                           *)
(***************************************************************************)
EXTENDS Integers, Sequences, FiniteSets, TLC

VARIABLES
    \* --- freshness policy, evaluated as a pure function ---
    fLast,      \* the instant written into the snapshot's lastUpdated
    fNow,       \* the clock reading taken inside shouldUpdateCache
    fHour,      \* config.jstUpdateHour
    fPc,        \* "in" before the call, "out" after it
    fResult,    \* the value shouldUpdateCache returned
    \* --- one aggregation run (getCommitCount) ---
    aCfg,       \* the configuration the run reads (getConfig)
    aProv,      \* the provider's state: what each URL answers
    gc,         \* the frame of getCommitCount
    go,         \* the frame of getOrgRepoCommits
    aQueries,   \* getRepoCommits calls issued so far, per pass
    \* --- the cache controller: /badge requests and background runs ---
    cCfg,       \* the configuration every request reads (getConfig)
    clock,      \* the clock (what new Date() reads)
    ticks,      \* how many times the clock has advanced
    store,      \* the key-value entry of the monitored identity
    reqs,       \* the /badge requests, by arrival number
    runs,       \* the background runs, by the request that scheduled them
    hist,       \* history: what has been started and persisted so far
    \* --- one function applied to bounded inputs ---
    pArgs,      \* the arguments (and, for fetchWithRetry, what fetch does)
    pPc,        \* "in" before the call, then the position inside it, "out" after
    pOut        \* what the call has produced so far

fvars == <<fLast, fNow, fHour, fPc, fResult>>
avars == <<aCfg, aProv, gc, go, aQueries>>
cvars == <<cCfg, clock, ticks, store, reqs, runs, hist>>
pvars == <<pArgs, pPc, pOut>>

vars == <<fLast, fNow, fHour, fPc, fResult, aCfg, aProv, gc, go, aQueries,
          cCfg, clock, ticks, store, reqs, runs, hist, pArgs, pPc, pOut>>

---------------------------------------------------------------------------
(* Each specification below drives one group of variables; the other      *)
(* groups stay at these values.                                            *)

FreshOff == fLast = 0 /\ fNow = 0 /\ fHour = 0 /\ fPc = "off" /\ fResult = FALSE

AggOff == aCfg = 0 /\ aProv = 0 /\ gc = 0 /\ go = 0 /\ aQueries = 0

CacheOff ==
    cCfg = 0 /\ clock = 0 /\ ticks = 0 /\ store = 0 /\ reqs = 0 /\ runs = 0 /\ hist = 0

PureOff == pArgs = 0 /\ pPc = "off" /\ pOut = 0

---------------------------------------------------------------------------
(* Durations, in seconds *)

HourSecs == 60 * 60
DaySecs == 24 * 60 * 60
JstOffset == 9 * 60 * 60
StaleCeiling == 24 * 60 * 60

---------------------------------------------------------------------------
(* The proleptic Gregorian calendar used by Date (UTC getters). *)

\* civil date of the day number z (days since 1970-01-01); the shifted day
\* number is the argument of a function, so that it is computed once
CivilFromDays(z) ==
    LET Civil[zz \in {z + 719468}] ==
            LET era == zz \div 146097
                doe == zz - era * 146097
                yoe == (doe - (doe \div 1460) + (doe \div 36524) - (doe \div 146096)) \div 365
                doy == doe - (365 * yoe + (yoe \div 4) - (yoe \div 100))
                mp == (5 * doy + 2) \div 153
                d == doy - ((153 * mp + 2) \div 5) + 1
                m == IF mp < 10 THEN mp + 3 ELSE mp - 9
                y == yoe + era * 400 + (IF m <= 2 THEN 1 ELSE 0)
            IN  [year |-> y, month |-> m, day |-> d]
    IN  Civil[z + 719468]

\* day number of a civil date
DaysFromCivil(y, m, d) ==
    LET yy == IF m <= 2 THEN y - 1 ELSE y
        era == yy \div 400
        yoe == yy - era * 400
        mp == IF m > 2 THEN m - 3 ELSE m + 9
        doy == ((153 * mp + 2) \div 5) + d - 1
        doe == yoe * 365 + (yoe \div 4) - (yoe \div 100) + doy
    IN  era * 146097 + doe - 719468

\* Date.prototype.getUTCDate: the day of the month, 1..31
getUTCDate(t) == CivilFromDays(t \div DaySecs).day

\* Date.prototype.getUTCHours: 0..23
getUTCHours(t) == (t % DaySecs) \div HourSecs

\* Date.prototype.toISOString: the fields of YYYY-MM-DDTHH:mm:ssZ
toISOString(t) ==
    LET c == CivilFromDays(t \div DaySecs)
        s == t % DaySecs
    IN  [year |-> c.year, month |-> c.month, day |-> c.day,
         hour |-> s \div HourSecs, minute |-> (s % HourSecs) \div 60,
         second |-> s % 60]

\* new Date(isoString).getTime()
DateParse(iso) ==
    DaysFromCivil(iso.year, iso.month, iso.day) * DaySecs
        + iso.hour * HourSecs + iso.minute * 60 + iso.second

---------------------------------------------------------------------------
(* Freshness policy *)

\* faulty variant: the UTC+9 offset is applied to `now` only
shouldUpdateCacheNoOffset(lastUpdated, now, jstUpdateHour) ==
    LET lastUpdate == DateParse(lastUpdated)
        jstNow == now + JstOffset
    IN  IF now - lastUpdate > StaleCeiling THEN TRUE
        ELSE IF getUTCDate(jstNow) # getUTCDate(lastUpdate)
                /\ getUTCHours(jstNow) >= jstUpdateHour THEN TRUE
        ELSE FALSE

\* shouldUpdateCache(lastUpdated, jstUpdateHour) with the clock reading
\* `now` of its `new Date()` made a parameter
shouldUpdateCache(lastUpdated, now, jstUpdateHour) ==
    LET lastUpdate == DateParse(lastUpdated)
        jstNow == now + JstOffset
        jstLastUpdate == lastUpdate + JstOffset
    IN  IF now - lastUpdate > StaleCeiling
        THEN TRUE
        ELSE IF getUTCDate(jstNow) # getUTCDate(jstLastUpdate)
                /\ getUTCHours(jstNow) >= jstUpdateHour
             THEN TRUE
             ELSE FALSE

---------------------------------------------------------------------------
(* Strings are sequences of one-character strings; an absent (undefined)   *)
(* optional field is the value Undefined.                                  *)

Undefined == <<"undefined">>

\* JavaScript truthiness of an optional string: undefined and "" are falsy
Truthy(s) == s # Undefined /\ s # <<>>

\* s || ""
OrEmpty(s) == IF Truthy(s) THEN s ELSE <<>>

\* the letters String.prototype.toLowerCase changes among the characters a
\* string literal can hold here (Basic Latin and Latin-1: A-Z, À-Ö, Ø-Þ);
\* every other such character is left as it is
UpperChars == <<"A", "B", "C", "D", "E", "F", "G", "H", "I", "J", "K", "L", "M",
                "N", "O", "P", "Q", "R", "S", "T", "U", "V", "W", "X", "Y", "Z",
                "À", "Á", "Â", "Ã", "Ä", "Å", "Æ", "Ç", "È", "É", "Ê", "Ë", "Ì",
                "Í", "Î", "Ï", "Ð", "Ñ", "Ò", "Ó", "Ô", "Õ", "Ö", "Ø", "Ù", "Ú",
                "Û", "Ü", "Ý", "Þ">>
LowerChars == <<"a", "b", "c", "d", "e", "f", "g", "h", "i", "j", "k", "l", "m",
                "n", "o", "p", "q", "r", "s", "t", "u", "v", "w", "x", "y", "z",
                "à", "á", "â", "ã", "ä", "å", "æ", "ç", "è", "é", "ê", "ë", "ì",
                "í", "î", "ï", "ð", "ñ", "ò", "ó", "ô", "õ", "ö", "ø", "ù", "ú",
                "û", "ü", "ý", "þ">>

LowerTable == [c \in {UpperChars[i] : i \in 1..Len(UpperChars)} |->
                  LowerChars[CHOOSE i \in 1..Len(UpperChars) : UpperChars[i] = c]]

LowerChar(c) == IF c \in DOMAIN LowerTable THEN LowerTable[c] ELSE c

\* String.prototype.toLowerCase
toLowerCase(s) == [i \in 1..Len(s) |-> LowerChar(s[i])]

\* /p/.test(s): p occurs somewhere in s
Contains(s, p) ==
    \E i \in 1..(Len(s) - Len(p) + 1) : SubSeq(s, i, i + Len(p) - 1) = p

\* /p$/.test(s): p occurs at the very end of s
EndsWith(s, p) ==
    Len(s) >= Len(p) /\ SubSeq(s, Len(s) - Len(p) + 1, Len(s)) = p

\* botIndicators: the patterns that may match anywhere ...
BotFragments ==
    { <<"d", "e", "p", "e", "n", "d", "a", "b", "o", "t">>,
      <<"r", "e", "n", "o", "v", "a", "t", "e">>,
      <<"g", "r", "e", "e", "n", "k", "e", "e", "p", "e", "r">>,
      <<"g", "i", "t", "h", "u", "b", "-", "a", "c", "t", "i", "o", "n", "s">>,
      <<"c", "o", "d", "e", "c", "o", "v">>,
      <<"s", "n", "y", "k">>,
      <<"w", "e", "b", "-", "f", "l", "o", "w">>,
      <<"b", "o", "t", "-">>,
      <<"n", "o", "r", "e", "p", "l", "y", "@", "g", "i", "t", "h", "u", "b", ".", "c", "o", "m">> }

\* ... and the two anchored with $
BotSuffixes ==
    { <<"[", "b", "o", "t", "]">>,
      <<"-", "b", "o", "t">> }

\* `${login || ""} ${name || ""} ${email || ""}`.toLowerCase()
checkString(login, name, email) ==
    toLowerCase(OrEmpty(login) \o <<" ">> \o OrEmpty(name) \o <<" ">> \o OrEmpty(email))

isBotAccount(login, name, email) ==
    IF ~Truthy(login) /\ ~Truthy(name) /\ ~Truthy(email)
    THEN FALSE
    ELSE LET cs == checkString(login, name, email)
         IN  \/ \E p \in BotFragments : Contains(cs, p)
             \/ \E p \in BotSuffixes : EndsWith(cs, p)

---------------------------------------------------------------------------
(* Repository Commit Counter *)

\* Response.ok: status in 200..299
ResponseOk(status) == status >= 200 /\ status <= 299

\* faulty variant: only commits with more than two parents are merges
IsUserCommitLateMerge(commit, username) ==
    LET authorLogin == commit.author.login
        authorName == commit.commit.author.name
        authorEmail == commit.commit.author.email
        isMergeCommit == Len(commit.parents) > 2
    IN  /\ ~isBotAccount(authorLogin, authorName, authorEmail)
        /\ ~isMergeCommit
        /\ authorLogin = username

\* faulty variant: the login is compared without regard to case
IsUserCommitAnyCase(commit, username) ==
    LET authorLogin == commit.author.login
        authorName == commit.commit.author.name
        authorEmail == commit.commit.author.email
        isMergeCommit == Len(commit.parents) >= 2
    IN  /\ ~isBotAccount(authorLogin, authorName, authorEmail)
        /\ ~isMergeCommit
        /\ toLowerCase(authorLogin) = toLowerCase(username)

\* the filter callback of getRepoCommits, for one entry of the page
IsUserCommit(commit, username) ==
    LET authorLogin == commit.author.login   \* commit.author?.login
        authorName == commit.commit.author.name
        authorEmail == commit.commit.author.email
        isMergeCommit == Len(commit.parents) >= 2
    IN  /\ ~isBotAccount(authorLogin, authorName, authorEmail)
        /\ ~isMergeCommit
        /\ authorLogin = username

\* commits.filter(...).length
RECURSIVE CountUserCommits(_, _)
CountUserCommits(commits, username) ==
    IF commits = <<>> THEN 0
    ELSE (IF IsUserCommit(Head(commits), username) THEN 1 ELSE 0)
             + CountUserCommits(Tail(commits), username)

\* faulty variant: a failure is reported as -1 instead of 0
getRepoCommitsErrorCode(username, fetched) ==
    IF fetched.threw THEN 0 - 1
    ELSE IF ResponseOk(fetched.status)
         THEN IF ~fetched.parses THEN 0 - 1
              ELSE CountUserCommits(fetched.body, username)
         ELSE 0 - 1

\* getRepoCommits, given what fetchWithRetry did for the commits URL:
\* fetched.threw when the retry budget was exhausted, else fetched.status
\* and fetched.body, the page of entries; fetched.parses is FALSE when
\* json() or a field access on an entry throws (a malformed response)
getRepoCommits(username, fetched) ==
    IF fetched.threw THEN 0
    ELSE IF ResponseOk(fetched.status)
         THEN IF ~fetched.parses THEN 0
              ELSE CountUserCommits(fetched.body, username)
         ELSE 0

---------------------------------------------------------------------------
(* Status classifier *)

\* faulty variant: the boundaries are exclusive
getHealthStatusStrict(commits, healthyThreshold, moderateThreshold) ==
    IF commits > healthyThreshold THEN "healthy"
    ELSE IF commits > moderateThreshold THEN "moderate"
    ELSE "inactive"

getHealthStatus(commits, healthyThreshold, moderateThreshold) ==
    IF commits >= healthyThreshold THEN "healthy"
    ELSE IF commits >= moderateThreshold THEN "moderate"
    ELSE "inactive"

---------------------------------------------------------------------------
(* Aggregation engine: getCommitCount and getOrgRepoCommits *)

MaxProcessed == 20
OwnedPerPage == 30

Min(a, b) == IF a < b THEN a ELSE b

\* since = new Date(); since.setDate(since.getDate() - monitoringDays)
SinceOf(now, monitoringDays) == now - monitoringDays * DaySecs

\* faulty variant: the batch of five whether or not a credential is set
BatchSizeOfFive(githubToken) == 5

\* const batchSize = config.githubToken ? 5 : 3
BatchSizeOf(githubToken) == IF Truthy(githubToken) THEN 5 ELSE 3

\* setTimeout(resolve, config.githubToken ? 100 : 200), in milliseconds
BatchPauseOf(githubToken) == IF Truthy(githubToken) THEN 100 ELSE 200

\* repos.filter(...).slice(0, 20) of getCommitCount
OwnedReposToProcess(repos, processedRepos, excludeRepos, since) ==
    LET Keep(repo) ==
            IF processedRepos >= MaxProcessed THEN FALSE
            ELSE IF repo.name \in excludeRepos THEN FALSE
            ELSE DateParse(repo.updated_at) >= since
        kept == SelectSeq(repos, Keep)
    IN  SubSeq(kept, 1, Min(MaxProcessed, Len(kept)))

\* the positions (1-based) of reposToProcess.slice(i, i + batchSize)
BatchPositions(i, batchSize, len) == (i + 1)..Min(i + batchSize, len)

\* the loop over `results` of an owned batch: the commits added and the
\* number of repositories counted, results given by position
OwnedBatchCommits(results, positions) ==
    LET RECURSIVE Sum(_)
        Sum(ps) == IF ps = {} THEN 0
                   ELSE LET k == CHOOSE x \in ps : TRUE
                        IN  results[k] + Sum(ps \ {k})
    IN  Sum(positions)

\* faulty variant: every examined repository is counted
OwnedBatchReposExamined(results, positions) == Cardinality(positions)

OwnedBatchRepos(results, positions) ==
    Cardinality({k \in positions : results[k] > 0})

\* every repository of the settled organization listings that passes the
\* date test and the exclusion list, whatever maxRepos
RECURSIVE FlattenOrgReposUncapped(_, _, _, _, _)
FlattenOrgReposUncapped(results, acc, maxRepos, excludeRepos, since) ==
    IF results = <<>> THEN acc
    ELSE LET result == Head(results)
             Keep(repo) == DateParse(repo.updated_at) >= since
                              /\ repo.name \notin excludeRepos
             kept == SelectSeq(result.repos, Keep)
         IN  FlattenOrgReposUncapped(
                 Tail(results),
                 IF result.isNull THEN acc
                 ELSE acc \o [k \in 1..Len(kept) |-> [org |-> result.org, repo |-> kept[k]]],
                 maxRepos, excludeRepos, since)

\* faulty variant: the organization pass does not test the repository name
\* against the exclusion list
RECURSIVE FlattenOrgReposAnyName(_, _, _, _, _)
FlattenOrgReposAnyName(results, acc, maxRepos, excludeRepos, since) ==
    IF results = <<>> THEN acc
    ELSE LET result == Head(results)
             RECURSIVE Inner(_, _)
             Inner(repos, a) ==
                 IF repos = <<>> THEN a
                 ELSE IF Len(a) >= maxRepos THEN a
                 ELSE LET repo == Head(repos)
                      IN  IF DateParse(repo.updated_at) >= since
                          THEN Inner(Tail(repos), Append(a, [org |-> result.org, repo |-> repo]))
                          ELSE Inner(Tail(repos), a)
         IN  FlattenOrgReposAnyName(Tail(results),
                                    IF result.isNull THEN acc ELSE Inner(result.repos, acc),
                                    maxRepos, excludeRepos, since)

\* the loops of getOrgRepoCommits that flatten orgReposResults into
\* allOrgRepos: `acc` grows while acc.length < maxRepos
RECURSIVE FlattenOrgRepos(_, _, _, _, _)
FlattenOrgRepos(results, acc, maxRepos, excludeRepos, since) ==
    IF results = <<>> THEN acc
    ELSE LET result == Head(results)
             RECURSIVE Inner(_, _)
             Inner(repos, a) ==
                 IF repos = <<>> THEN a
                 ELSE IF Len(a) >= maxRepos THEN a
                 ELSE LET repo == Head(repos)
                      IN  IF DateParse(repo.updated_at) >= since
                             /\ repo.name \notin excludeRepos
                          THEN Inner(Tail(repos), Append(a, [org |-> result.org, repo |-> repo]))
                          ELSE Inner(Tail(repos), a)
         IN  FlattenOrgRepos(Tail(results),
                             IF result.isNull THEN acc ELSE Inner(result.repos, acc),
                             maxRepos, excludeRepos, since)

\* whether the loops that flatten orgReposResults throw: `for (const repo of
\* result.repos)` throws at once on a truthy value that is not iterable, and
\* `repo.updated_at` throws on a null entry, which is read only while
\* allOrgRepos.length < maxRepos; a falsy result.repos fails the test
\* `result && result.repos` and the organization is passed over
RECURSIVE FlattenThrows(_, _, _, _, _)
FlattenThrows(results, acc, maxRepos, excludeRepos, since) ==
    IF results = <<>> THEN FALSE
    ELSE LET result == Head(results)
         IN  IF result.isNull
             THEN FlattenThrows(Tail(results), acc, maxRepos, excludeRepos, since)
             ELSE IF result.shape = "object" THEN TRUE
             ELSE IF result.shape = "nullEntry" /\ Len(acc) < maxRepos THEN TRUE
             ELSE FlattenThrows(Tail(results),
                                FlattenOrgRepos(<<result>>, acc, maxRepos,
                                                excludeRepos, since),
                                maxRepos, excludeRepos, since)

\* the loop over `results` of an organization batch, in array order:
\* a non-null result is counted while processedOrgRepos < maxRepos
RECURSIVE OrgBatchApply(_, _, _, _, _, _)
OrgBatchApply(results, k, last, total, processed, maxRepos) ==
    IF k > last THEN [totalOrgCommits |-> total, processedOrgRepos |-> processed]
    ELSE IF results[k] > 0 /\ processed < maxRepos
         THEN OrgBatchApply(results, k + 1, last, total + results[k], processed + 1, maxRepos)
         ELSE OrgBatchApply(results, k + 1, last, total, processed, maxRepos)

\* faulty variant: the organization exclusion list is not applied
FilteredOrgsKeepAll(orgs, excludeOrgs) == orgs

\* orgs.filter((org) => !config.excludeOrgs.includes(org.login))
FilteredOrgs(orgs, excludeOrgs) ==
    LET Keep(org) == org.login \notin excludeOrgs
    IN  SelectSeq(orgs, Keep)

\* `return null` of one organization's listing
NullResult(login) == [isNull |-> TRUE, org |-> login, repos |-> <<>>, shape |-> "list"]

\* what one organization's repository listing resolves to inside
\* orgReposPromises: { org, repos } or null; json() is awaited inside the
\* per-organization try, the parsed body is not inspected there
OrgReposResult(login, fetched) ==
    IF fetched.threw THEN NullResult(login)
    ELSE IF ResponseOk(fetched.status) /\ fetched.parses
         THEN [isNull |-> FALSE, org |-> login, repos |-> fetched.body,
               shape |-> fetched.shape]
         ELSE NullResult(login)

---------------------------------------------------------------------------
(* The provider: what each URL answers, for a family of accounts *)

Alice == <<"a", "l", "i", "c", "e">>
Bob == <<"b", "o", "b">>
AliceName == <<"A", "l", "i", "c", "e">>
AliceMail == <<"a", "@", "x", ".", "i", "o">>
Dependabot == <<"d", "e", "p", "e", "n", "d", "a", "b", "o", "t", "[", "b", "o", "t", "]">>
SomeToken == <<"t", "o", "k">>

CommitEntry(login, name, email, nParents) ==
    [author |-> [login |-> login],
     commit |-> [author |-> [name |-> name, email |-> email]],
     parents |-> [k \in 1..nParents |-> "sha"]]

OwnCommit == CommitEntry(Alice, AliceName, AliceMail, 1)
RootCommit == CommitEntry(Alice, AliceName, AliceMail, 0)
MergeCommit == CommitEntry(Alice, AliceName, AliceMail, 2)
BotCommit == CommitEntry(Dependabot, Dependabot, AliceMail, 1)
OtherCommit == CommitEntry(Bob, AliceName, AliceMail, 1)
UnlinkedCommit == CommitEntry(Undefined, AliceName, AliceMail, 1)

CommitsPerPage == 100

\* what fetchWithRetry can do for a URL. parses: json() resolves. shape: what
\* the parsed body is: "list" (an array of entries); "object" (a truthy value
\* that cannot be iterated: {}, {"message": ...}, true, 7); "falsy" (null, 0,
\* false, which `result.repos` tests as false and which can neither be
\* filtered nor iterated); "nullEntry" (the array [null])
FetchedOk(body) ==
    [threw |-> FALSE, status |-> 200, parses |-> TRUE, body |-> body, shape |-> "list"]
FetchedStatus(status) ==
    [threw |-> FALSE, status |-> status, parses |-> TRUE, body |-> <<>>, shape |-> "list"]
FetchedMalformed ==
    [threw |-> FALSE, status |-> 200, parses |-> FALSE, body |-> <<>>, shape |-> "list"]
FetchedThrew ==
    [threw |-> TRUE, status |-> 0, parses |-> FALSE, body |-> <<>>, shape |-> "list"]
FetchedObject ==
    [threw |-> FALSE, status |-> 200, parses |-> TRUE, body |-> <<>>, shape |-> "object"]
FetchedFalsy ==
    [threw |-> FALSE, status |-> 200, parses |-> TRUE, body |-> <<>>, shape |-> "falsy"]
FetchedNullEntry ==
    [threw |-> FALSE, status |-> 200, parses |-> TRUE, body |-> <<>>, shape |-> "nullEntry"]

\* the commit histories a repository can have
History(kind) ==
    CASE kind = "empty" -> FetchedOk(<<>>)
      [] kind = "two" -> FetchedOk(<<OwnCommit, RootCommit>>)
      [] kind = "mixed" -> FetchedOk(<<MergeCommit, OwnCommit, BotCommit, OtherCommit, UnlinkedCommit>>)
      [] kind = "full" -> FetchedOk([k \in 1..CommitsPerPage |-> OwnCommit])
      [] kind = "conflict" -> FetchedStatus(409)
      [] kind = "malformed" -> FetchedMalformed
      [] kind = "threw" -> FetchedThrew

KindCycle == <<"two", "empty", "mixed", "threw", "full", "conflict", "malformed">>

Patterns == {"zeros", "active", "varied"}

KindAt(pattern, i) ==
    CASE pattern = "zeros" -> "empty"
      [] pattern = "active" -> "two"
      [] pattern = "varied" -> KindCycle[((i - 1) % Len(KindCycle)) + 1]

\* seconds between `since` and the repository's updated_at
UpdatedOffset(pattern, i) ==
    IF pattern = "varied" /\ i % 5 = 0 THEN 0 - 1
    ELSE IF pattern = "varied" /\ i % 5 = 1 THEN 0
    ELSE DaySecs

\* repositories are named by numbers: the i-th owned repository is i, the
\* i-th repository of organization j is OrgBase * j + i
MkRepo(base, pattern, i, since) ==
    [name |-> base + i,
     updated_at |-> toISOString(since + UpdatedOffset(pattern, i))]

MkRepos(base, pattern, n, since) == [i \in 1..n |-> MkRepo(base, pattern, i, since)]

OrgBase == 2 * (OwnedPerPage + MaxProcessed)

\* 2024-03-01T00:00:00Z
AggNow == DaysFromCivil(2024, 3, 1) * DaySecs
AggDays == 14

MaxOrgs == 2

\* config.excludeRepos: the third repository of the owner and the third
\* repository of every organization carry an excluded name
ExcludedRepos == {3} \cup {OrgBase * j + 3 : j \in 1..MaxOrgs}

OwnedLens == {0, 1, 4, MaxProcessed, MaxProcessed + 1, OwnedPerPage}
OrgRepoCaps == {5, MaxProcessed + 1}

\* how a listing can answer: a page of entries; a 404; no answer within the
\* retry budget; a 200 whose body is no JSON; a 200 whose JSON is a truthy
\* value that is not iterable; a 200 whose JSON is null, 0 or false; a 200
\* with the array [null]
ListingOutcomes ==
    {"ok", "status", "threw", "malformed", "object", "falsy", "nullEntry"}

Listing(outcome, body) ==
    CASE outcome = "ok" -> FetchedOk(body)
      [] outcome = "status" -> FetchedStatus(404)
      [] outcome = "threw" -> FetchedThrew
      [] outcome = "malformed" -> FetchedMalformed
      [] outcome = "object" -> FetchedObject
      [] outcome = "falsy" -> FetchedFalsy
      [] outcome = "nullEntry" -> FetchedNullEntry

\* the provider honours per_page: at most `cap` entries come back
FirstPage(repos, cap) == SubSeq(repos, 1, Min(cap, Len(repos)))

\* GET /users/:username/repos?type=owner&sort=updated&per_page=30
ProviderOwned(prov, since) ==
    Listing(prov.ownedOutcome,
            FirstPage(MkRepos(0, prov.ownedPattern, prov.ownedLen, since), OwnedPerPage))

\* GET /users/:username/orgs
ProviderOrgs(prov) ==
    Listing(prov.orgsOutcome, [j \in 1..prov.nOrgs |-> [login |-> j]])

\* GET /orgs/:org/repos?type=public&sort=updated&per_page=maxReposPerOrg;
\* every organization holds maxReposPerOrg + 1 repositories
ProviderOrgRepos(prov, login, perPage, since) ==
    Listing(IF login = prov.nOrgs THEN prov.lastOrgOutcome ELSE "ok",
            FirstPage(MkRepos(OrgBase * login, prov.orgPattern, perPage + 1, since), perPage))

\* GET /repos/:owner/:repo/commits?author=:username&since=...&per_page=100
ProviderKind(prov, name) ==
    IF name < OrgBase
    THEN KindAt(prov.ownedPattern, name)
    ELSE KindAt(prov.orgPattern, name % OrgBase)

ProviderCommits(prov, name) == History(ProviderKind(prov, name))

\* the value an awaited getRepoCommits call settles to; for the monitored
\* user of the family it is evaluated once per kind of history
HistoryKinds == {KindCycle[i] : i \in 1..Len(KindCycle)}
RepoCommitsTable == [kind \in HistoryKinds |-> getRepoCommits(Alice, History(kind))]

RepoCommitsOf(username, prov, name) ==
    IF username = Alice
    THEN RepoCommitsTable[ProviderKind(prov, name)]
    ELSE getRepoCommits(username, ProviderCommits(prov, name))

---------------------------------------------------------------------------
(* The frames of one run, and its steps *)

\* the two texts of getCommitCount / getOrgRepoCommits: "batched" in the
\* modular build and in the single-file build (queries in batches, the
\* organization listings together, every call through fetchWithRetry),
\* "sequential" in the worker of README.md (one call at a time, each a
\* single fetch)
Engines == {"batched", "sequential"}

NoResults == [k \in {} |-> 0]

GcIdle ==
    [pc |-> "idle", since |-> 0, totalCommits |-> 0, processedRepos |-> 0,
     repoSources |-> [owned |-> 0, org |-> 0], reposToProcess |-> <<>>,
     i |-> 0, pending |-> {}, results |-> NoResults,
     ret |-> [commits |-> 0, sources |-> [owned |-> 0, org |-> 0]],
     run |-> 1,
     first |-> [raised |-> FALSE,
                ret |-> [commits |-> 0, sources |-> [owned |-> 0, org |-> 0]]]]

GoIdle ==
    [maxRepos |-> 0, totalOrgCommits |-> 0, processedOrgRepos |-> 0,
     filteredOrgs |-> <<>>, orgPending |-> {}, orgReposResults |-> <<>>,
     allOrgRepos |-> <<>>, flattenThrew |-> FALSE, orgIdx |-> 0,
     i |-> 0, pending |-> {}, results |-> NoResults]

\* return { commits: totalCommits, sources: repoSources }
GcReturn(g) ==
    [g EXCEPT !.pc = "done",
              !.ret = [commits |-> g.totalCommits, sources |-> g.repoSources]]

\* getOrgRepoCommits returns { commits, repos } and getCommitCount adds it
GoReturn(g, o) ==
    /\ gc' = GcReturn([g EXCEPT !.totalCommits = @ + o.totalOrgCommits,
                                !.repoSources.org = o.processedOrgRepos,
                                !.processedRepos = @ + o.processedOrgRepos])
    /\ go' = o

\* faulty variant: the organization pass runs whatever the configuration
AfterOwnedAnyConfig(g) ==
    IF g.processedRepos < MaxProcessed
    THEN /\ gc' = [g EXCEPT !.pc = "orgsList"]
         /\ go' = [GoIdle EXCEPT !.maxRepos = MaxProcessed - g.processedRepos]
    ELSE /\ gc' = GcReturn(g)
         /\ go' = go

\* faulty variant: the organization pass is given the whole ceiling
AfterOwnedFullBudget(g) ==
    IF aCfg.includeOrgRepos /\ g.processedRepos < MaxProcessed
    THEN /\ gc' = [g EXCEPT !.pc = "orgsList"]
         /\ go' = [GoIdle EXCEPT !.maxRepos = MaxProcessed]
    ELSE /\ gc' = GcReturn(g)
         /\ go' = go

\* the statement after the owned pass:
\* if (config.includeOrgRepos && processedRepos < 20) getOrgRepoCommits(...)
AfterOwned(g) ==
    IF aCfg.includeOrgRepos /\ g.processedRepos < MaxProcessed
    THEN /\ gc' = [g EXCEPT !.pc = "orgsList"]
         /\ go' = [GoIdle EXCEPT !.maxRepos = MaxProcessed - g.processedRepos]
    ELSE /\ gc' = GcReturn(g)
         /\ go' = go

\* a batch of getRepoCommits calls is issued: batch.map(async ...)
IssueBatch(frame, i, len) ==
    LET ps == BatchPositions(i, BatchSizeOf(aCfg.githubToken), len)
    IN  [frame EXCEPT !.i = i, !.pending = ps, !.results = [k \in ps |-> 0 - 1]]

\* getCommitCount is called: the owned-repository listing is requested
GcStart ==
    /\ gc.pc = "idle"
    /\ gc' = [gc EXCEPT !.pc = "ownedList",
                        !.since = SinceOf(aCfg.now, aCfg.monitoringDays)]
    /\ UNCHANGED <<fvars, pvars, cvars, aCfg, aProv, go, aQueries>>

\* faulty variant: a non-success status of the owned listing fails the run
GcOwnedListedStatusRaises ==
    /\ aCfg.engine = "batched"
    /\ gc.pc = "ownedList"
    /\ LET f == ProviderOwned(aProv, gc.since)
       IN  IF f.threw \/ ~ResponseOk(f.status) \/ ~f.parses \/ f.shape # "list"
           THEN /\ gc' = [gc EXCEPT !.pc = "raised"]
                /\ UNCHANGED <<go, aQueries>>
           ELSE LET rtp == OwnedReposToProcess(f.body, gc.processedRepos,
                                               aCfg.excludeRepos, gc.since)
                    g == [gc EXCEPT !.reposToProcess = rtp]
                IN  IF Len(rtp) > 0
                    THEN /\ gc' = [IssueBatch(g, 0, Len(rtp)) EXCEPT !.pc = "ownedBatch"]
                         /\ aQueries' = [aQueries EXCEPT !.owned =
                                @ + Cardinality(BatchPositions(0, BatchSizeOf(aCfg.githubToken), Len(rtp)))]
                         /\ go' = go
                    ELSE AfterOwned(g) /\ aQueries' = aQueries
    /\ UNCHANGED <<fvars, pvars, cvars, aCfg, aProv>>

\* the owned-repository listing settles
GcOwnedListed ==
    /\ aCfg.engine = "batched"
    /\ gc.pc = "ownedList"
    /\ LET f == ProviderOwned(aProv, gc.since)
       IN  IF f.threw \/ (ResponseOk(f.status) /\ (~f.parses \/ f.shape # "list"))
           THEN /\ gc' = [gc EXCEPT !.pc = "raised"]
                /\ UNCHANGED <<go, aQueries>>
           ELSE IF ResponseOk(f.status)
           THEN LET rtp == OwnedReposToProcess(f.body, gc.processedRepos,
                                               aCfg.excludeRepos, gc.since)
                    g == [gc EXCEPT !.reposToProcess = rtp]
                IN  IF Len(rtp) > 0
                    THEN /\ gc' = [IssueBatch(g, 0, Len(rtp)) EXCEPT !.pc = "ownedBatch"]
                         /\ aQueries' = [aQueries EXCEPT !.owned =
                                @ + Cardinality(BatchPositions(0, BatchSizeOf(aCfg.githubToken), Len(rtp)))]
                         /\ go' = go
                    ELSE AfterOwned(g) /\ aQueries' = aQueries
           ELSE AfterOwned(gc) /\ aQueries' = aQueries
    /\ UNCHANGED <<fvars, pvars, cvars, aCfg, aProv>>

\* faulty variant: every completion overwrites what the batch has gathered
\* so far instead of filling its own slot
GcOwnedQueryDoneLastWins(k) ==
    /\ gc.pc = "ownedBatch"
    /\ k \in gc.pending
    /\ gc' = [gc EXCEPT !.pending = @ \ {k},
                        !.results = [j \in DOMAIN gc.results |->
                            IF j = k
                            THEN RepoCommitsOf(aCfg.username, aProv,
                                               gc.reposToProcess[k].name)
                            ELSE 0]]
    /\ UNCHANGED <<fvars, pvars, cvars, aCfg, aProv, go, aQueries>>

\* one getRepoCommits call of the owned pass in flight settles (a call of
\* the batch, or the one call the README.md worker awaits)
GcOwnedQueryDone(k) ==
    /\ gc.pc = "ownedBatch"
    /\ k \in gc.pending
    /\ gc' = [gc EXCEPT !.pending = @ \ {k},
                        !.results[k] = RepoCommitsOf(aCfg.username, aProv,
                                                     gc.reposToProcess[k].name)]
    /\ UNCHANGED <<fvars, pvars, cvars, aCfg, aProv, go, aQueries>>

\* Promise.all(batchPromises) of the owned pass resolves
GcOwnedBatchDone ==
    /\ aCfg.engine = "batched"
    /\ gc.pc = "ownedBatch"
    /\ gc.pending = {}
    /\ LET ps == DOMAIN gc.results
           n == OwnedBatchRepos(gc.results, ps)
           g == [gc EXCEPT !.totalCommits = @ + OwnedBatchCommits(gc.results, ps),
                           !.repoSources.owned = @ + n,
                           !.processedRepos = @ + n]
       IN  IF gc.i + BatchSizeOf(aCfg.githubToken) < Len(gc.reposToProcess)
           THEN /\ gc' = [g EXCEPT !.pc = "ownedPause"]
                /\ go' = go
           ELSE AfterOwned(g)
    /\ UNCHANGED <<fvars, pvars, cvars, aCfg, aProv, aQueries>>

\* the pause between two owned batches ends and the next batch is issued
GcOwnedNextBatch ==
    /\ aCfg.engine = "batched"
    /\ gc.pc = "ownedPause"
    /\ LET i == gc.i + BatchSizeOf(aCfg.githubToken)
           g == IssueBatch(gc, i, Len(gc.reposToProcess))
       IN  /\ gc' = [g EXCEPT !.pc = "ownedBatch"]
           /\ aQueries' = [aQueries EXCEPT !.owned = @ + Cardinality(g.pending)]
    /\ UNCHANGED <<fvars, pvars, cvars, aCfg, aProv, go>>

\* the organization listing settles
GoOrgsListed ==
    /\ aCfg.engine = "batched"
    /\ gc.pc = "orgsList"
    /\ LET f == ProviderOrgs(aProv)
       IN  IF f.threw \/ ~ResponseOk(f.status) \/ ~f.parses \/ f.shape # "list"
           THEN GoReturn(gc, go)
           ELSE LET orgs == FilteredOrgs(f.body, aCfg.excludeOrgs)
                IN  IF Len(orgs) = 0
                    THEN GoReturn(gc, [go EXCEPT !.filteredOrgs = orgs])
                    ELSE /\ gc' = [gc EXCEPT !.pc = "orgRepoLists"]
                         /\ go' = [go EXCEPT !.filteredOrgs = orgs,
                                             !.orgPending = 1..Len(orgs),
                                             !.orgReposResults =
                                                 [j \in 1..Len(orgs) |->
                                                     NullResult(orgs[j].login)]]
    /\ UNCHANGED <<fvars, pvars, cvars, aCfg, aProv, aQueries>>

\* one organization's repository listing settles
GoOrgReposListed(j) ==
    /\ aCfg.engine = "batched"
    /\ gc.pc = "orgRepoLists"
    /\ j \in go.orgPending
    /\ LET login == go.filteredOrgs[j].login
       IN  go' = [go EXCEPT !.orgPending = @ \ {j},
                            !.orgReposResults[j] =
                                OrgReposResult(login, ProviderOrgRepos(aProv, login,
                                                   aCfg.maxReposPerOrg, gc.since))]
    /\ UNCHANGED <<fvars, pvars, cvars, aCfg, aProv, gc, aQueries>>

\* Promise.all(orgReposPromises) resolves: flatten, then the first batch;
\* a throw of the flatten loops is caught by the catch around the whole
\* pass, which returns the totals gathered so far (none)
GoFlatten ==
    /\ aCfg.engine = "batched"
    /\ gc.pc = "orgRepoLists"
    /\ go.orgPending = {}
    /\ LET all == FlattenOrgRepos(go.orgReposResults, <<>>, go.maxRepos,
                                  aCfg.excludeRepos, gc.since)
           o == [go EXCEPT !.allOrgRepos = all]
       IN  IF FlattenThrows(go.orgReposResults, <<>>, go.maxRepos,
                            aCfg.excludeRepos, gc.since)
           THEN GoReturn(gc, [go EXCEPT !.flattenThrew = TRUE]) /\ aQueries' = aQueries
           ELSE IF 0 < Len(all) /\ o.processedOrgRepos < o.maxRepos
           THEN /\ go' = IssueBatch(o, 0, Len(all))
                /\ gc' = [gc EXCEPT !.pc = "orgBatch"]
                /\ aQueries' = [aQueries EXCEPT !.org =
                        @ + Cardinality(BatchPositions(0, BatchSizeOf(aCfg.githubToken), Len(all)))]
           ELSE GoReturn(gc, o) /\ aQueries' = aQueries
    /\ UNCHANGED <<fvars, pvars, cvars, aCfg, aProv>>

\* one getRepoCommits call of the organization pass in flight settles (a
\* call of the batch, or the one call the README.md worker awaits)
GoOrgQueryDone(k) ==
    /\ gc.pc = "orgBatch"
    /\ k \in go.pending
    /\ go' = [go EXCEPT !.pending = @ \ {k},
                        !.results[k] = RepoCommitsOf(aCfg.username, aProv,
                                                     go.allOrgRepos[k].repo.name)]
    /\ UNCHANGED <<fvars, pvars, cvars, aCfg, aProv, gc, aQueries>>

\* Promise.all(batchPromises) of the organization pass resolves
GoOrgBatchDone ==
    /\ aCfg.engine = "batched"
    /\ gc.pc = "orgBatch"
    /\ go.pending = {}
    /\ LET r == OrgBatchApply(go.results, go.i + 1,
                              Min(go.i + BatchSizeOf(aCfg.githubToken), Len(go.allOrgRepos)),
                              go.totalOrgCommits, go.processedOrgRepos, go.maxRepos)
           o == [go EXCEPT !.totalOrgCommits = r.totalOrgCommits,
                           !.processedOrgRepos = r.processedOrgRepos]
       IN  IF go.i + BatchSizeOf(aCfg.githubToken) < Len(go.allOrgRepos)
              /\ o.processedOrgRepos < o.maxRepos
           THEN /\ go' = o
                /\ gc' = [gc EXCEPT !.pc = "orgPause"]
           ELSE GoReturn(gc, o)
    /\ UNCHANGED <<fvars, pvars, cvars, aCfg, aProv, aQueries>>

\* the pause between two organization batches ends; next batch
GoOrgNextBatch ==
    /\ aCfg.engine = "batched"
    /\ gc.pc = "orgPause"
    /\ LET i == go.i + BatchSizeOf(aCfg.githubToken)
           o == IssueBatch(go, i, Len(go.allOrgRepos))
       IN  /\ go' = o
           /\ aQueries' = [aQueries EXCEPT !.org = @ + Cardinality(o.pending)]
    /\ gc' = [gc EXCEPT !.pc = "orgBatch"]
    /\ UNCHANGED <<fvars, pvars, cvars, aCfg, aProv>>

---------------------------------------------------------------------------
(* The steps of a run of the README.md worker: its getCommitCount and     *)
(* getOrgRepoCommits await one call at a time. The worker keeps no list   *)
(* of what it has asked for: reposToProcess and allOrgRepos record the    *)
(* repositories getRepoCommits has been called for, orgReposResults the   *)
(* organization listings that have settled, pending and results the one   *)
(* call awaited and what it returned.                                      *)

\* the tests at the head of `for (const repo of repos)` that `continue`:
\* the first position from i on whose repository is neither excluded by
\* name nor updated before `since`, 0 when the listing has none left
RECURSIVE NextToQuery(_, _, _, _)
NextToQuery(repos, i, excludeRepos, since) ==
    IF i > Len(repos) THEN 0
    ELSE IF repos[i].name \in excludeRepos
         THEN NextToQuery(repos, i + 1, excludeRepos, since)
    ELSE IF DateParse(repos[i].updated_at) < since
         THEN NextToQuery(repos, i + 1, excludeRepos, since)
    ELSE i

\* `for (const org of orgs)`: the first position from j on whose
\* organization is not excluded, 0 when there is none left
RECURSIVE NextOrg(_, _, _)
NextOrg(orgs, j, excludeOrgs) ==
    IF j > Len(orgs) THEN 0
    ELSE IF orgs[j].login \in excludeOrgs THEN NextOrg(orgs, j + 1, excludeOrgs)
    ELSE j

\* the owned loop from position i of the listing: `if (processedRepos >=
\* 20) break`, the skipped repositories, then the next getRepoCommits call;
\* after the loop, the statement that follows the owned pass
SeqOwnedLoop(g, repos, i) ==
    LET k == IF g.processedRepos >= MaxProcessed THEN 0
             ELSE NextToQuery(repos, i, aCfg.excludeRepos, g.since)
        p == Len(g.reposToProcess) + 1
    IN  IF k > 0
        THEN /\ gc' = [g EXCEPT !.pc = "ownedBatch", !.i = k,
                                !.reposToProcess = Append(@, repos[k]),
                                !.pending = {p},
                                !.results = [q \in {p} |-> 0 - 1]]
             /\ aQueries' = [aQueries EXCEPT !.owned = @ + 1]
             /\ go' = go
        ELSE AfterOwned(g) /\ aQueries' = aQueries

\* the owned-repository listing settles: a network failure, a body that
\* does not parse or cannot be iterated ends getCommitCount with the
\* error; a non-success status skips the owned pass
GcSeqOwnedListed ==
    /\ aCfg.engine = "sequential"
    /\ gc.pc = "ownedList"
    /\ LET f == ProviderOwned(aProv, gc.since)
       IN  IF f.threw \/ (ResponseOk(f.status) /\ (~f.parses \/ f.shape # "list"))
           THEN /\ gc' = [gc EXCEPT !.pc = "raised"]
                /\ UNCHANGED <<go, aQueries>>
           ELSE IF ResponseOk(f.status)
           THEN SeqOwnedLoop(gc, f.body, 1)
           ELSE AfterOwned(gc) /\ aQueries' = aQueries
    /\ UNCHANGED <<fvars, pvars, cvars, aCfg, aProv>>

\* the awaited getRepoCommits call of the owned loop has returned:
\* if (commits > 0) { totalCommits += commits; repoSources.owned++;
\* processedRepos++ }, then the pause of 50 or 100 ms begins
GcSeqOwnedCounted ==
    /\ aCfg.engine = "sequential"
    /\ gc.pc = "ownedBatch"
    /\ gc.pending = {}
    /\ LET commits == gc.results[Len(gc.reposToProcess)]
       IN  gc' = IF commits > 0
                 THEN [gc EXCEPT !.pc = "ownedPause",
                                 !.totalCommits = @ + commits,
                                 !.repoSources.owned = @ + 1,
                                 !.processedRepos = @ + 1]
                 ELSE [gc EXCEPT !.pc = "ownedPause"]
    /\ UNCHANGED <<fvars, pvars, cvars, aCfg, aProv, go, aQueries>>

\* the pause after an owned repository ends: the loop goes on
GcSeqOwnedNext ==
    /\ aCfg.engine = "sequential"
    /\ gc.pc = "ownedPause"
    /\ SeqOwnedLoop(gc, ProviderOwned(aProv, gc.since).body, gc.i + 1)
    /\ UNCHANGED <<fvars, pvars, cvars, aCfg, aProv>>

\* the loop over the organizations from position j: `if (processedOrgRepos
\* >= maxRepos) break`, the excluded organizations, then the request for
\* the next organization's repositories; after the loop, the return
SeqOrgLoop(o, orgs, j) ==
    LET n == IF o.processedOrgRepos >= o.maxRepos THEN 0
             ELSE NextOrg(orgs, j, aCfg.excludeOrgs)
    IN  /\ IF n > 0
           THEN /\ gc' = [gc EXCEPT !.pc = "orgRepoLists"]
                /\ go' = [o EXCEPT !.orgIdx = n, !.orgPending = {n}]
           ELSE GoReturn(gc, o)
        /\ aQueries' = aQueries

\* the loop over one organization's repositories from position i: the
\* break on processedOrgRepos >= maxRepos, the skipped repositories, then
\* the next getRepoCommits call; after the loop, the pause of 100 or 200 ms
SeqOrgRepoLoop(o, login, repos, i) ==
    LET k == IF o.processedOrgRepos >= o.maxRepos THEN 0
             ELSE NextToQuery(repos, i, aCfg.excludeRepos, gc.since)
        p == Len(o.allOrgRepos) + 1
    IN  IF k > 0
        THEN /\ go' = [o EXCEPT !.i = k,
                                !.allOrgRepos =
                                    Append(@, [org |-> login, repo |-> repos[k]]),
                                !.pending = {p},
                                !.results = [q \in {p} |-> 0 - 1]]
             /\ gc' = [gc EXCEPT !.pc = "orgBatch"]
             /\ aQueries' = [aQueries EXCEPT !.org = @ + 1]
        ELSE /\ go' = o
             /\ gc' = [gc EXCEPT !.pc = "orgListPause"]
             /\ aQueries' = aQueries

\* the organization listing settles: a failure, a non-success status or a
\* body that cannot be iterated returns the totals, which are 0
GoSeqOrgsListed ==
    /\ aCfg.engine = "sequential"
    /\ gc.pc = "orgsList"
    /\ LET f == ProviderOrgs(aProv)
       IN  IF f.threw \/ ~ResponseOk(f.status) \/ ~f.parses \/ f.shape # "list"
           THEN GoReturn(gc, go) /\ aQueries' = aQueries
           ELSE SeqOrgLoop(go, f.body, 1)
    /\ UNCHANGED <<fvars, pvars, cvars, aCfg, aProv>>

\* the repository listing of the organization at orgIdx settles: a
\* failure, a body that does not parse, cannot be iterated or holds null
\* is caught by the catch of this organization, a non-success status takes
\* the else branch; both `continue` with the next organization
GoSeqOrgReposListed ==
    /\ aCfg.engine = "sequential"
    /\ gc.pc = "orgRepoLists"
    /\ go.orgPending = {go.orgIdx}
    /\ LET orgs == ProviderOrgs(aProv).body
           login == orgs[go.orgIdx].login
           f == ProviderOrgRepos(aProv, login, aCfg.maxReposPerOrg, gc.since)
           o == [go EXCEPT !.orgPending = {},
                           !.orgReposResults = Append(@, OrgReposResult(login, f))]
       IN  IF f.threw \/ ~ResponseOk(f.status) \/ ~f.parses \/ f.shape # "list"
           THEN SeqOrgLoop(o, orgs, go.orgIdx + 1)
           ELSE SeqOrgRepoLoop(o, login, f.body, 1)
    /\ UNCHANGED <<fvars, pvars, cvars, aCfg, aProv>>

\* the awaited getRepoCommits call of the organization loop has returned:
\* if (commits > 0) { totalOrgCommits += commits; processedOrgRepos++ },
\* then the pause of 50 or 100 ms begins
GoSeqOrgCounted ==
    /\ aCfg.engine = "sequential"
    /\ gc.pc = "orgBatch"
    /\ go.pending = {}
    /\ LET commits == go.results[Len(go.allOrgRepos)]
       IN  go' = IF commits > 0
                 THEN [go EXCEPT !.totalOrgCommits = @ + commits,
                                 !.processedOrgRepos = @ + 1]
                 ELSE go
    /\ gc' = [gc EXCEPT !.pc = "orgPause"]
    /\ UNCHANGED <<fvars, pvars, cvars, aCfg, aProv, aQueries>>

\* the pause after an organization repository ends: the loop goes on
GoSeqOrgNext ==
    /\ aCfg.engine = "sequential"
    /\ gc.pc = "orgPause"
    /\ LET login == ProviderOrgs(aProv).body[go.orgIdx].login
           f == ProviderOrgRepos(aProv, login, aCfg.maxReposPerOrg, gc.since)
       IN  SeqOrgRepoLoop(go, login, f.body, go.i + 1)
    /\ UNCHANGED <<fvars, pvars, cvars, aCfg, aProv>>

\* the pause after an organization ends: the next organization
GoSeqOrgListNext ==
    /\ aCfg.engine = "sequential"
    /\ gc.pc = "orgListPause"
    /\ SeqOrgLoop(go, ProviderOrgs(aProv).body, go.orgIdx + 1)
    /\ UNCHANGED <<fvars, pvars, cvars, aCfg, aProv>>

---------------------------------------------------------------------------
(* Either engine *)

\* the run has ended and getCommitCount is called a second time, with
\* the provider and the configuration unchanged and the same window
GcRunAgain ==
    /\ gc.pc \in {"done", "raised"}
    /\ gc.run = 1
    /\ gc' = [GcIdle EXCEPT !.run = 2,
                            !.first = [raised |-> gc.pc = "raised", ret |-> gc.ret]]
    /\ go' = GoIdle
    /\ aQueries' = [owned |-> 0, org |-> 0]
    /\ UNCHANGED <<fvars, pvars, cvars, aCfg, aProv>>

---------------------------------------------------------------------------
(* Specification SpecAgg: aggregation runs against a fixed provider *)

AggInit ==
    /\ \E token \in {Undefined, SomeToken}, include \in BOOLEAN,
          cap \in OrgRepoCaps, exOrgs \in {{}, {1}}, engine \in Engines :
          aCfg = [engine |-> engine, username |-> Alice, monitoringDays |-> AggDays, now |-> AggNow,
                  githubToken |-> token, includeOrgRepos |-> include,
                  maxReposPerOrg |-> cap, excludeRepos |-> ExcludedRepos,
                  excludeOrgs |-> exOrgs]
    /\ (~aCfg.includeOrgRepos => aCfg.maxReposPerOrg = 5 /\ aCfg.excludeOrgs = {})
    /\ \E oo \in ListingOutcomes, n \in OwnedLens, op \in Patterns,
          go1 \in ListingOutcomes, nOrgs \in 0..MaxOrgs, gp \in Patterns,
          lastOrg \in ListingOutcomes :
          /\ oo # "ok" => n = 0 /\ op = "zeros"
          /\ n = 0 => op = "zeros"
          /\ (~aCfg.includeOrgRepos \/ go1 # "ok") => nOrgs = 0
          /\ ~aCfg.includeOrgRepos => go1 = "ok"
          /\ nOrgs = 0 => gp = "zeros" /\ lastOrg = "ok"
          /\ aProv = [ownedOutcome |-> oo, ownedLen |-> n, ownedPattern |-> op,
                       orgsOutcome |-> go1, nOrgs |-> nOrgs, orgPattern |-> gp,
                       lastOrgOutcome |-> lastOrg]
    /\ gc = GcIdle
    /\ go = GoIdle
    /\ aQueries = [owned |-> 0, org |-> 0]
    /\ FreshOff
    /\ CacheOff
    /\ PureOff

AggNext ==
    \/ GcStart
    \/ GcOwnedListed
    \/ \E k \in gc.pending : GcOwnedQueryDone(k)
    \/ GcOwnedBatchDone
    \/ GcOwnedNextBatch
    \/ GoOrgsListed
    \/ \E j \in go.orgPending : GoOrgReposListed(j)
    \/ GoFlatten
    \/ \E k \in go.pending : GoOrgQueryDone(k)
    \/ GoOrgBatchDone
    \/ GoOrgNextBatch
    \/ GcSeqOwnedListed
    \/ GcSeqOwnedCounted
    \/ GcSeqOwnedNext
    \/ GoSeqOrgsListed
    \/ GoSeqOrgReposListed
    \/ GoSeqOrgCounted
    \/ GoSeqOrgNext
    \/ GoSeqOrgListNext
    \/ GcRunAgain

SpecAgg == AggInit /\ [][AggNext]_vars

---------------------------------------------------------------------------
(* Specification SpecFresh: shouldUpdateCache applied to bounded inputs *)

\* 2024-01-14T15:00:00Z = 2024-01-15 00:00 JST, and 2024-01-31 00:00 JST
FreshBases == {DaysFromCivil(2024, 1, 14) * DaySecs + 15 * HourSecs,
               DaysFromCivil(2024, 1, 30) * DaySecs + 15 * HourSecs}

FreshMaxHours == 26
FreshMaxMonths == 1

\* offsets of `now` from lastUpdated: every hour up to the bound, one second
\* either side of it, and whole 31-day months in both directions
FreshDeltas ==
    {h * HourSecs + s : h \in (0 - 2)..FreshMaxHours, s \in {0 - 1, 0, 1}}
        \cup {k * 31 * DaySecs + h * HourSecs :
                k \in (0 - FreshMaxMonths)..FreshMaxMonths, h \in {0, 12}}

FreshInit ==
    /\ \E b \in FreshBases, h \in 0..23 : fLast = b + h * HourSecs
    /\ \E dl \in FreshDeltas : fNow = fLast + dl
    /\ fHour \in 0..23
    /\ fPc = "in"
    /\ fResult = FALSE
    /\ AggOff
    /\ CacheOff
    /\ PureOff

FreshEval ==
    /\ fPc = "in"
    /\ fResult' = shouldUpdateCache(toISOString(fLast), fNow, fHour)
    /\ fPc' = "out"
    /\ UNCHANGED <<fLast, fNow, fHour, avars, cvars, pvars>>

FreshNext == FreshEval

SpecFresh == FreshInit /\ [][FreshNext]_vars

---------------------------------------------------------------------------
(* Specification SpecFreshLater: shouldUpdateCache applied again and      *)
(* again to one stored lastUpdated while the clock advances; pOut notes   *)
(* whether an earlier reading was judged stale                             *)

LaterLastHours == {0, 9, 15, 23}
LaterUpdateHours == {0, 8, 12, 23}

LaterInit ==
    /\ \E b \in FreshBases, h \in LaterLastHours : fLast = b + h * HourSecs
    /\ \E dl \in FreshDeltas : dl >= 0 /\ fNow = fLast + dl
    /\ fHour \in LaterUpdateHours
    /\ fPc = "in"
    /\ fResult = FALSE
    /\ pArgs = 0 /\ pPc = "off" /\ pOut = FALSE
    /\ AggOff
    /\ CacheOff

\* a later request: the same lastUpdated is judged at a later instant
FreshLater(dl) ==
    /\ fPc \in {"out", "later"}
    /\ fLast + dl > fNow
    /\ fNow' = fLast + dl
    /\ fResult' = shouldUpdateCache(toISOString(fLast), fNow', fHour)
    /\ fPc' = "later"
    /\ pOut' = (pOut \/ fResult)
    /\ UNCHANGED <<fLast, fHour, pArgs, pPc, avars, cvars>>

LaterNext ==
    \/ FreshEval
    \/ \E dl \in FreshDeltas : FreshLater(dl)

SpecFreshLater == LaterInit /\ [][LaterNext]_vars

---------------------------------------------------------------------------
(* Specification SpecFilter: getRepoCommits applied to a one-entry page *)

MaxParents == 3

NoReplyMail == <<"n", "o", "r", "e", "p", "l", "y", "@", "g", "i", "t", "h", "u", "b", ".", "c", "o", "m">>
BotDashName == <<"b", "o", "t", "-", "a", "l">>

FilterLogins == {Undefined, <<>>, Alice, AliceName, Bob, Dependabot}
FilterNames == {Undefined, AliceName, Alice, BotDashName}
FilterEmails == {Undefined, AliceMail, NoReplyMail}
FilterUsers == {Alice, Bob}

FilterInit ==
    /\ \E u \in FilterUsers, l \in FilterLogins, n \in FilterNames,
          e \in FilterEmails, k \in 0..MaxParents :
          pArgs = [username |-> u, commit |-> CommitEntry(l, n, e, k)]
    /\ pPc = "in"
    /\ pOut = 0
    /\ FreshOff
    /\ AggOff
    /\ CacheOff

\* the provider answers 200 with the one entry; getRepoCommits counts
FilterEval ==
    /\ pPc = "in"
    /\ pOut' = getRepoCommits(pArgs.username, FetchedOk(<<pArgs.commit>>))
    /\ pPc' = "out"
    /\ UNCHANGED <<pArgs, fvars, avars, cvars>>

FilterNext == FilterEval

SpecFilter == FilterInit /\ [][FilterNext]_vars

---------------------------------------------------------------------------
(* Specification SpecBot: isBotAccount applied to bounded identities *)

AppBot == <<"m", "y", "a", "p", "p", "[", "b", "o", "t", "]">>
AppBotUpper == <<"M", "y", "A", "p", "p", "[", "B", "O", "T", "]">>
DeployBot == <<"d", "e", "p", "l", "o", "y", "-", "b", "o", "t">>
BotDashLogin == <<"b", "o", "t", "-", "x">>
MailOfBot == <<"c", "i", "@", "x", "-", "b", "o", "t">>
AccentBot == <<"É", "-", "B", "O", "T", "-", "x">>

BotLogins == {Undefined, <<>>, Alice, AliceName, Dependabot, AppBot, AppBotUpper,
              DeployBot, BotDashLogin, AccentBot}
BotNames == {Undefined, <<>>, AliceName, BotDashName}
BotEmails == {Undefined, AliceMail, NoReplyMail, MailOfBot}

BotInit ==
    /\ \E l \in BotLogins, n \in BotNames, e \in BotEmails :
          pArgs = [login |-> l, name |-> n, email |-> e]
    /\ pPc = "in"
    /\ pOut = FALSE
    /\ FreshOff
    /\ AggOff
    /\ CacheOff

BotEval ==
    /\ pPc = "in"
    /\ pOut' = isBotAccount(pArgs.login, pArgs.name, pArgs.email)
    /\ pPc' = "out"
    /\ UNCHANGED <<pArgs, fvars, avars, cvars>>

BotNext == BotEval

SpecBot == BotInit /\ [][BotNext]_vars

---------------------------------------------------------------------------
(* Specification SpecStatus: getHealthStatus applied to bounded inputs *)

MaxCount == 21

\* thresholds: the defaults 15 and 5, and others, reversed pairs included
StatusThresholds == {0, 5, 10, 15, 20}

StatusInit ==
    /\ \E c \in 0..MaxCount, h \in StatusThresholds, m \in StatusThresholds :
          pArgs = [commits |-> c, healthyThreshold |-> h, moderateThreshold |-> m]
    /\ pPc = "in"
    /\ pOut = "none"
    /\ FreshOff
    /\ AggOff
    /\ CacheOff

StatusEval ==
    /\ pPc = "in"
    /\ pOut' = getHealthStatus(pArgs.commits, pArgs.healthyThreshold,
                               pArgs.moderateThreshold)
    /\ pPc' = "out"
    /\ UNCHANGED <<pArgs, fvars, avars, cvars>>

StatusNext == StatusEval

SpecStatus == StatusInit /\ [][StatusNext]_vars

---------------------------------------------------------------------------
(* Rate-limited fetch client: fetchWithRetry.  Waits are in milliseconds. *)

Digits == <<"0", "1", "2", "3", "4", "5", "6", "7", "8", "9">>
DigitValue == [c \in {Digits[i] : i \in 1..Len(Digits)} |->
                  (CHOOSE i \in 1..Len(Digits) : Digits[i] = c) - 1]

\* parseInt of a string of decimal digits
RECURSIVE parseInt(_)
parseInt(str) ==
    IF str = <<>> THEN 0
    ELSE parseInt(SubSeq(str, 1, Len(str) - 1)) * 10 + DigitValue[str[Len(str)]]

RECURSIVE Pow2(_)
Pow2(n) == IF n = 0 THEN 1 ELSE 2 * Pow2(n - 1)

\* response.status === 429 || response.status === 403
RateLimited(status) == status = 429 \/ status = 403

\* response.status >= 500
ServerError(status) == status >= 500

\* faulty variant: every status from 400 up is retried
RetriedStatusFrom400(status) == status >= 400

\* the statuses after which the loop sleeps and continues
RetriedStatus(status) == RateLimited(status) \/ ServerError(status)

\* faulty variant: the retry-after seconds are used as milliseconds
WaitTimeHintAsMillis(response, initialDelay, i) ==
    IF RateLimited(response.status) /\ Truthy(response.retryAfter)
    THEN parseInt(response.retryAfter)
    ELSE initialDelay * Pow2(i)

\* faulty variant: the retry-after header is honoured on a 429 only
WaitTimeHintOn429Only(response, initialDelay, i) ==
    IF response.status = 429 /\ Truthy(response.retryAfter)
    THEN parseInt(response.retryAfter) * 1000
    ELSE initialDelay * Pow2(i)

\* the wait after the attempt numbered i (from 0): the retry-after header
\* of a rate-limited response when it has one, else initialDelay * 2^i
WaitTime(response, initialDelay, i) ==
    IF RateLimited(response.status) /\ Truthy(response.retryAfter)
    THEN parseInt(response.retryAfter) * 1000
    ELSE initialDelay * Pow2(i)

NoError == [kind |-> "none", id |-> 0]
NetworkError(n) == [kind |-> "network", id |-> n]
\* new Error(`Failed to fetch ${url} after ${maxRetries} retries`)
FailedAfter(maxRetries) == [kind |-> "failedAfterRetries", id |-> maxRetries]

\* faulty variant: the captured error is dropped
ExhaustedErrorSynthetic(lastError, maxRetries) == FailedAfter(maxRetries)

\* throw lastError || new Error(...)
ExhaustedError(lastError, maxRetries) ==
    IF lastError # NoError THEN lastError ELSE FailedAfter(maxRetries)

NoFetched == [status |-> 0, retryAfter |-> Undefined]

FetchFrame ==
    [i |-> 0, lastError |-> NoError, attempts |-> 0, slept |-> <<>>,
     ret |-> NoFetched, thrown |-> NoError]

\* faulty variant: the loop runs while i <= maxRetries
LoopHeadOneMore(f, maxRetries) ==
    IF f.i <= maxRetries
    THEN /\ pPc' = "fetch"
         /\ pOut' = [f EXCEPT !.attempts = @ + 1]
    ELSE /\ pPc' = "out"
         /\ pOut' = [f EXCEPT !.thrown = ExhaustedError(f.lastError, maxRetries)]

\* the loop condition i < maxRetries: the next fetch is issued, or the
\* loop ends and the function throws
LoopHead(f, maxRetries) ==
    IF f.i < maxRetries
    THEN /\ pPc' = "fetch"
         /\ pOut' = [f EXCEPT !.attempts = @ + 1]
    ELSE /\ pPc' = "out"
         /\ pOut' = [f EXCEPT !.thrown = ExhaustedError(f.lastError, maxRetries)]

\* fetchWithRetry is called
FetchCall ==
    /\ pPc = "in"
    /\ LoopHead(pOut, pArgs.maxRetries)
    /\ UNCHANGED <<pArgs, fvars, avars, cvars>>

\* the fetch in flight settles with a response
FetchResponded ==
    /\ pPc = "fetch"
    /\ LET o == pArgs.script[pOut.i + 1]
       IN  /\ o.kind = "response"
           /\ IF RetriedStatus(o.response.status)
              THEN /\ pPc' = "sleep"
                   /\ pOut' = [pOut EXCEPT !.slept =
                                  Append(@, WaitTime(o.response, pArgs.initialDelay, pOut.i))]
              ELSE /\ pPc' = "out"
                   /\ pOut' = [pOut EXCEPT !.ret = o.response]
    /\ UNCHANGED <<pArgs, fvars, avars, cvars>>

\* the fetch in flight rejects: the catch block records the error
FetchFailed ==
    /\ pPc = "fetch"
    /\ LET o == pArgs.script[pOut.i + 1]
       IN  /\ o.kind = "error"
           /\ pPc' = "sleep"
           /\ pOut' = [pOut EXCEPT !.lastError = o.error,
                                   !.slept = Append(@, pArgs.initialDelay * Pow2(pOut.i))]
    /\ UNCHANGED <<pArgs, fvars, avars, cvars>>

\* the sleep ends: i++ and the loop condition
FetchSlept ==
    /\ pPc = "sleep"
    /\ LoopHead([pOut EXCEPT !.i = @ + 1], pArgs.maxRetries)
    /\ UNCHANGED <<pArgs, fvars, avars, cvars>>

---------------------------------------------------------------------------
(* Specification SpecFetch: fetchWithRetry against scripted attempts *)

MaxRetries == 3

FetchStatuses == {200, 304, 404, 403, 429, 500, 503}
RetryAfterHeaders == {Undefined, <<"2">>, <<"1", "0">>}

\* what one attempt can end in: a response of any status, with or without
\* a retry-after header, or a network failure
AttemptOutcomes ==
    {[kind |-> "response", response |-> [status |-> st, retryAfter |-> ra],
      error |-> NoError] :
        st \in FetchStatuses, ra \in RetryAfterHeaders}
    \cup {[kind |-> "error", response |-> NoFetched, error |-> NetworkError(n)] :
            n \in {1, 2}}

\* the initial delays the callers pass (500) and the default (1000)
InitialDelays == {500, 1000}

FetchInit ==
    /\ \E n \in 0..MaxRetries, d \in InitialDelays :
          \E sc \in [1..n -> AttemptOutcomes] :
              pArgs = [maxRetries |-> n, initialDelay |-> d, script |-> sc]
    /\ pPc = "in"
    /\ pOut = FetchFrame
    /\ FreshOff
    /\ AggOff
    /\ CacheOff

FetchNext ==
    \/ FetchCall
    \/ FetchResponded
    \/ FetchFailed
    \/ FetchSlept

SpecFetch == FetchInit /\ [][FetchNext]_vars

\* every fetch in flight settles and every timer fires
SpecFetchLive == SpecFetch /\ WF_vars(FetchNext)

---------------------------------------------------------------------------
(* Cache controller: the key-value store, the /badge handler and          *)
(* updateCacheInBackground                                                 *)

NoData ==
    [commits |-> 0, status |-> "none", lastUpdated |-> toISOString(0),
     sources |-> [owned |-> 0, org |-> 0]]

\* the entry of the monitored identity: absent, or a value that expires
StoreEmpty == [present |-> FALSE, value |-> NoData, putAt |-> 0, expiresAt |-> 0]

\* faulty variant: the entry never expires
KvGetIgnoresExpiry(entry, t) ==
    IF entry.present
    THEN [present |-> TRUE, value |-> entry.value, putAt |-> entry.putAt]
    ELSE [present |-> FALSE, value |-> NoData, putAt |-> 0]

\* env.AM_I_GENKI_CACHE.get(cacheKey, "json"): null once the entry expired
KvGet(entry, t) ==
    IF entry.present /\ t < entry.expiresAt
    THEN [present |-> TRUE, value |-> entry.value, putAt |-> entry.putAt]
    ELSE [present |-> FALSE, value |-> NoData, putAt |-> 0]

\* faulty variant: the default TTL instead of the configured one
PutOptionsDefaultTtl(config) == [expirationTtl |-> DaySecs]

\* the options of the put: { expirationTtl: config.cacheTTL }
PutOptions(config) == [expirationTtl |-> config.cacheTTL]

\* env.AM_I_GENKI_CACHE.put(cacheKey, JSON.stringify(data), options)
KvPut(data, options, t) ==
    [present |-> TRUE, value |-> data, putAt |-> t,
     expiresAt |-> t + options.expirationTtl]

\* faulty variant: the snapshot is built without the classification
BuildDataUnclassified(result, config, t) ==
    [commits |-> result.commits,
     status |-> "none",
     lastUpdated |-> toISOString(t),
     sources |-> result.sources]

\* the CacheData both paths build from a getCommitCount result
BuildData(result, config, t) ==
    [commits |-> result.commits,
     status |-> getHealthStatus(result.commits, config.healthyThreshold,
                                config.moderateThreshold),
     lastUpdated |-> toISOString(t),
     sources |-> result.sources]

\* faulty variant: every cached snapshot triggers the background update
BadgePlanAlwaysRefresh(cached, config, t) ==
    IF cached.present
    THEN [serveCached |-> TRUE, background |-> TRUE,
          reject |-> FALSE, compute |-> FALSE]
    ELSE IF isBotAccount(config.username, Undefined, Undefined)
         THEN [serveCached |-> FALSE, background |-> FALSE,
               reject |-> TRUE, compute |-> FALSE]
         ELSE [serveCached |-> FALSE, background |-> FALSE,
               reject |-> FALSE, compute |-> TRUE]

\* the branch of the /badge handler of the worker printed in README.md:
\* if (cached && !shouldUpdateCache(...)) data = cached; else the bot check
\* and the computation in the request itself.  A stale snapshot is treated
\* like a missing one and nothing is handed to waitUntil
BadgePlanReadme(cached, config, t) ==
    IF cached.present
       /\ ~shouldUpdateCache(cached.value.lastUpdated, t, config.jstUpdateHour)
    THEN [serveCached |-> TRUE, background |-> FALSE,
          reject |-> FALSE, compute |-> FALSE]
    ELSE IF isBotAccount(config.username, Undefined, Undefined)
         THEN [serveCached |-> FALSE, background |-> FALSE,
               reject |-> TRUE, compute |-> FALSE]
         ELSE [serveCached |-> FALSE, background |-> FALSE,
               reject |-> FALSE, compute |-> TRUE]

\* the branch of the /badge handler after the store lookup:
\* what is served, whether a background update is handed to waitUntil,
\* whether the request is refused, whether it computes synchronously
BadgePlan(cached, config, t) ==
    IF config.build = "readme"
    THEN BadgePlanReadme(cached, config, t)
    ELSE IF cached.present
    THEN [serveCached |-> TRUE,
          background |-> shouldUpdateCache(cached.value.lastUpdated, t,
                                           config.jstUpdateHour),
          reject |-> FALSE, compute |-> FALSE]
    ELSE IF isBotAccount(config.username, Undefined, Undefined)
         THEN [serveCached |-> FALSE, background |-> FALSE,
               reject |-> TRUE, compute |-> FALSE]
         ELSE [serveCached |-> FALSE, background |-> FALSE,
               reject |-> FALSE, compute |-> TRUE]

\* faulty variant: a per-identity lock, no run is started while another
\* background run of the identity is in flight
UpdateStartUnlessRunning(config) ==
    IF isBotAccount(config.username, Undefined, Undefined) THEN "skipped"
    ELSE IF \E q \in DOMAIN runs : runs[q].pc \in {"agg", "put"} THEN "skipped"
    ELSE "agg"

\* faulty variant: the bot check is inverted
UpdateStartInverted(config) ==
    IF isBotAccount(config.username, Undefined, Undefined) THEN "agg" ELSE "skipped"

\* updateCacheInBackground up to its first await: "skipped" for a bot-like
\* identity, else getCommitCount is in flight
UpdateStart(config) ==
    IF isBotAccount(config.username, Undefined, Undefined) THEN "skipped" ELSE "agg"

\* faulty variant: the result is dropped and nothing is put
AfterCommitCountDropsResult(outcome, config, t) == [pc |-> "failed", data |-> NoData]

\* faulty variant: a throw is degraded to a zero count and put
AfterCommitCountPutsOnThrow(outcome, config, t) ==
    [pc |-> "put",
     data |-> BuildData(IF outcome.threw
                        THEN [commits |-> 0, sources |-> [owned |-> 0, org |-> 0]]
                        ELSE outcome.result, config, t)]

\* faulty variant: the snapshot is stamped an hour after the settle
AfterCommitCountStampsLater(outcome, config, t) ==
    IF outcome.threw
    THEN [pc |-> "failed", data |-> NoData]
    ELSE [pc |-> "put", data |-> BuildData(outcome.result, config, t + HourSecs)]

\* what a run does when getCommitCount settles: on a throw the catch block
\* (background) or the handler's catch (synchronous) ends the run; on a
\* result the snapshot is built and put
AfterCommitCount(outcome, config, t) ==
    IF outcome.threw
    THEN [pc |-> "failed", data |-> NoData]
    ELSE [pc |-> "put", data |-> BuildData(outcome.result, config, t)]

\* the success response: X-Commits and X-Status of `data`
BadgeResponse(data) == [kind |-> "ok", commits |-> data.commits, status |-> data.status]
ErrorResponse(kind) == [kind |-> kind, commits |-> 0, status |-> "none"]
NoResponse == [kind |-> "none", commits |-> 0, status |-> "none"]

\* the three workers the sources hold, all on the same store binding:
\* "modular" (index.ts with ./badge, ./cache, ./github, ./utils and
\* ./types), "single" (everything in one file, index.ts) and "readme" (the
\* one-file worker printed in README.md, which has no
\* updateCacheInBackground and calls fetch without fetchWithRetry; its
\* getCommitCount, the "sequential" engine, settles like the "batched" one
\* of the others with a result or a throw)
Builds == {"modular", "single", "readme"}

\* whether the call isValidBadgeStyle(styleParam) throws: badge.ts imports
\* VALID_BADGE_STYLES with `import type` and reads it as a value, so with the
\* types erased the name is not defined (ReferenceError); the one-file
\* workers declare the constant next to the function
isValidBadgeStyleThrows(build) == build = "modular"

\* the end of the /badge handler once `data` is set: the style is validated,
\* the badge generated and answered; a throw reaches the handler's catch,
\* which answers 500
Respond(config, data) ==
    IF isValidBadgeStyleThrows(config.build)
    THEN ErrorResponse("error500")
    ELSE BadgeResponse(data)

NoRead == [present |-> FALSE, value |-> NoData, putAt |-> 0]

ReqIdle ==
    [pc |-> "idle", cached |-> NoRead, readAt |-> 0, gotStore |-> FALSE,
     data |-> NoData, resp |-> NoResponse, scheduled |-> FALSE,
     calls |-> 0, puts |-> 0, threw |-> FALSE, afterPut |-> FALSE,
     liveAtRead |-> FALSE, runPcAtResp |-> "none", putBeforeResp |-> FALSE,
     put |-> StoreEmpty]

RunNone ==
    [pc |-> "none", data |-> NoData, calls |-> 0, puts |-> 0, threw |-> FALSE,
     putFailed |-> FALSE, startedAt |-> 0, put |-> StoreEmpty]

\* the UTC+9 calendar day number of an instant
JstDay(t) == (t + JstOffset) \div DaySecs

---------------------------------------------------------------------------
(* Specification SpecCache: requests, background runs and the clock *)

MaxRequests == 2
MaxTicks == 3

Requests == 1..MaxRequests

BotUser == <<"b", "o", "t", "-", "x">>

\* what getCommitCount can settle to: a throw (the owned listing exhausted
\* its retries) or a result
AggResults ==
    { [commits |-> 7, sources |-> [owned |-> 2, org |-> 1]],
      [commits |-> 20, sources |-> [owned |-> 3, org |-> 0]] }

AggOutcomes ==
    {[threw |-> TRUE, result |-> [commits |-> 0, sources |-> [owned |-> 0, org |-> 0]]]}
        \cup {[threw |-> FALSE, result |-> r] : r \in AggResults}

\* 2024-01-31 07:00 JST
StartTimes == {DaysFromCivil(2024, 1, 30) * DaySecs + 22 * HourSecs}
TickSteps == {9 * HourSecs, 25 * HourSecs}
CacheTTLs == {24 * HourSecs, 48 * HourSecs}
UpdateHours == {0, 8}

\* the monitored login: a user, two automation accounts, and none
CacheUsers == {Alice, BotUser, DeployBot, <<>>}

CacheInit ==
    /\ \E u \in CacheUsers, ttl \in CacheTTLs, h \in UpdateHours, b \in Builds :
          /\ u = DeployBot => (ttl = DaySecs /\ h = 8)
          /\ cCfg = [username |-> u, healthyThreshold |-> 15, moderateThreshold |-> 5,
                     cacheTTL |-> ttl, jstUpdateHour |-> h, build |-> b]
    /\ clock \in StartTimes
    /\ ticks = 0
    /\ store = StoreEmpty
    /\ reqs = [r \in Requests |-> ReqIdle]
    /\ runs = [r \in Requests |-> RunNone]
    /\ hist = [everPut |-> FALSE, startDays |-> {}, dupDay |-> FALSE]
    /\ FreshOff
    /\ AggOff
    /\ PureOff

\* an aggregation run (getCommitCount) starts at instant t
NoteStart(h, t) ==
    [h EXCEPT !.startDays = @ \cup {JstDay(t)},
              !.dupDay = @ \/ JstDay(t) \in h.startDays]

\* a /badge request arrives: getConfig, the username check, the store get
BadgeStart(r) ==
    /\ reqs[r].pc = "idle"
    /\ r > 1 => reqs[r - 1].pc # "idle"
    /\ IF ~Truthy(cCfg.username)
       THEN reqs' = [reqs EXCEPT ![r].pc = "done",
                                 ![r].resp = ErrorResponse("notConfigured500")]
       ELSE reqs' = [reqs EXCEPT ![r].pc = "get", ![r].afterPut = hist.everPut]
    /\ UNCHANGED <<fvars, pvars, avars, cCfg, clock, ticks, store, runs, hist>>

\* the store get throws: the handler's catch answers 500
BadgeGetFails(r) ==
    /\ reqs[r].pc = "get"
    /\ reqs' = [reqs EXCEPT ![r].pc = "done", ![r].resp = ErrorResponse("error500")]
    /\ UNCHANGED <<fvars, pvars, avars, cCfg, clock, ticks, store, runs, hist>>

\* the store get settles and the handler runs up to its next await:
\* cached -> (schedule the background update) and respond;
\* absent -> refuse a bot-like identity, or call getCommitCount
BadgeGot(r) ==
    /\ reqs[r].pc = "get"
    /\ LET cached == KvGet(store, clock)
           plan == BadgePlan(cached, cCfg, clock)
           bg == IF plan.background THEN UpdateStart(cCfg) ELSE "none"
           q == [reqs[r] EXCEPT !.cached = cached, !.readAt = clock,
                                !.gotStore = TRUE,
                                !.liveAtRead = store.present /\ clock < store.expiresAt]
       IN  /\ IF plan.serveCached
              THEN reqs' = [reqs EXCEPT ![r] =
                              [q EXCEPT !.pc = "done", !.data = cached.value,
                                        !.resp = Respond(cCfg, cached.value),
                                        !.scheduled = plan.background,
                                        !.runPcAtResp = bg]]
              ELSE IF plan.reject
              THEN reqs' = [reqs EXCEPT ![r] =
                              [q EXCEPT !.pc = "done",
                                        !.resp = ErrorResponse("botRejected400")]]
              ELSE IF plan.compute
              THEN reqs' = [reqs EXCEPT ![r] = [q EXCEPT !.pc = "agg", !.calls = @ + 1]]
              ELSE reqs' = [reqs EXCEPT ![r] =
                              [q EXCEPT !.pc = "done", !.resp = ErrorResponse("error500")]]
           /\ runs' = IF plan.background
                      THEN [runs EXCEPT ![r].pc = bg, ![r].startedAt = clock,
                                        ![r].calls = IF bg = "agg" THEN 1 ELSE 0]
                      ELSE runs
           /\ hist' = IF (plan.background /\ bg = "agg") \/ plan.compute
                      THEN NoteStart(hist, clock)
                      ELSE hist
    /\ UNCHANGED <<fvars, pvars, avars, cCfg, clock, ticks, store>>

\* getCommitCount of the request's synchronous run settles
SyncSettled(r, outcome) ==
    /\ reqs[r].pc = "agg"
    /\ LET a == AfterCommitCount(outcome, cCfg, clock)
       IN  IF a.pc = "put"
           THEN reqs' = [reqs EXCEPT ![r].pc = "put", ![r].data = a.data]
           ELSE reqs' = [reqs EXCEPT ![r].pc = "done", ![r].threw = outcome.threw,
                                     ![r].resp = ErrorResponse("error500")]
    /\ UNCHANGED <<fvars, pvars, avars, cCfg, clock, ticks, store, runs, hist>>

\* the put of the synchronous run settles; the response follows
SyncPutSettled(r) ==
    /\ reqs[r].pc = "put"
    /\ store' = KvPut(reqs[r].data, PutOptions(cCfg), clock)
    /\ reqs' = [reqs EXCEPT ![r].pc = "done", ![r].puts = @ + 1,
                            ![r].putBeforeResp = TRUE, ![r].put = store',
                            ![r].resp = Respond(cCfg, reqs[r].data)]
    /\ hist' = [hist EXCEPT !.everPut = TRUE]
    /\ UNCHANGED <<fvars, pvars, avars, cCfg, clock, ticks, runs>>

\* the put of the synchronous run throws: the handler's catch answers 500
SyncPutFails(r) ==
    /\ reqs[r].pc = "put"
    /\ reqs' = [reqs EXCEPT ![r].pc = "done", ![r].resp = ErrorResponse("error500")]
    /\ UNCHANGED <<fvars, pvars, avars, cCfg, clock, ticks, store, runs, hist>>

\* getCommitCount of a background run settles
BgSettled(r, outcome) ==
    /\ runs[r].pc = "agg"
    /\ LET a == AfterCommitCount(outcome, cCfg, clock)
       IN  runs' = [runs EXCEPT ![r].pc = a.pc, ![r].data = a.data,
                                ![r].threw = outcome.threw]
    /\ UNCHANGED <<fvars, pvars, avars, cCfg, clock, ticks, store, reqs, hist>>

\* the put of a background run settles
BgPutSettled(r) ==
    /\ runs[r].pc = "put"
    /\ store' = KvPut(runs[r].data, PutOptions(cCfg), clock)
    /\ runs' = [runs EXCEPT ![r].pc = "done", ![r].puts = @ + 1, ![r].put = store']
    /\ hist' = [hist EXCEPT !.everPut = TRUE]
    /\ UNCHANGED <<fvars, pvars, avars, cCfg, clock, ticks, reqs>>

\* the put of a background run throws: caught and logged
BgPutFails(r) ==
    /\ runs[r].pc = "put"
    /\ runs' = [runs EXCEPT ![r].pc = "failed", ![r].putFailed = TRUE]
    /\ UNCHANGED <<fvars, pvars, avars, cCfg, clock, ticks, store, reqs, hist>>

\* time passes
Tick(d) ==
    /\ ticks < MaxTicks
    /\ clock' = clock + d
    /\ ticks' = ticks + 1
    /\ UNCHANGED <<fvars, pvars, avars, cCfg, store, reqs, runs, hist>>

CacheNext ==
    \/ \E r \in Requests : BadgeStart(r)
    \/ \E r \in Requests : BadgeGetFails(r)
    \/ \E r \in Requests : BadgeGot(r)
    \/ \E r \in Requests, o \in AggOutcomes : SyncSettled(r, o)
    \/ \E r \in Requests : SyncPutSettled(r)
    \/ \E r \in Requests : SyncPutFails(r)
    \/ \E r \in Requests, o \in AggOutcomes : BgSettled(r, o)
    \/ \E r \in Requests : BgPutSettled(r)
    \/ \E r \in Requests : BgPutFails(r)
    \/ \E d \in TickSteps : Tick(d)

SpecCache == CacheInit /\ [][CacheNext]_vars

---------------------------------------------------------------------------
(* Specification SpecWarm: the store already holds the snapshot of an     *)
(* earlier run, and requests keep arriving                                 *)

WarmTicks == 1

\* the earlier run put its snapshot 23 hours before the first request
WarmPutAt == CHOOSE t \in {c - 23 * HourSecs : c \in StartTimes} : TRUE

WarmStore(config) ==
    KvPut(BuildData(CHOOSE r \in AggResults : r.commits = 7, config, WarmPutAt),
          PutOptions(config), WarmPutAt)

WarmInit ==
    /\ \E ttl \in CacheTTLs, h \in UpdateHours, b \in Builds :
          cCfg = [username |-> Alice, healthyThreshold |-> 15, moderateThreshold |-> 5,
                  cacheTTL |-> ttl, jstUpdateHour |-> h, build |-> b]
    /\ clock \in StartTimes
    /\ ticks = 0
    /\ store = WarmStore(cCfg)
    /\ reqs = [r \in Requests |-> ReqIdle]
    /\ runs = [r \in Requests |-> RunNone]
    /\ hist = [everPut |-> TRUE, startDays |-> {JstDay(WarmPutAt)}, dupDay |-> FALSE]
    /\ FreshOff
    /\ AggOff
    /\ PureOff

\* the request has been answered and its run, if any, has ended: the
\* invocation is over and the next request can arrive
InvocationEnds(r) ==
    /\ reqs[r].pc = "done"
    /\ runs[r].pc \notin {"agg", "put"}
    /\ reqs' = [reqs EXCEPT ![r] = ReqIdle]
    /\ runs' = [runs EXCEPT ![r] = RunNone]
    /\ UNCHANGED <<fvars, pvars, avars, cCfg, clock, ticks, store, hist>>

\* an hour passes
WarmTick ==
    /\ ticks < WarmTicks
    /\ clock' = clock + HourSecs
    /\ ticks' = ticks + 1
    /\ UNCHANGED <<fvars, pvars, avars, cCfg, store, reqs, runs, hist>>

WarmNext ==
    \/ \E r \in Requests : BadgeStart(r)
    \/ \E r \in Requests : BadgeGetFails(r)
    \/ \E r \in Requests : BadgeGot(r)
    \/ \E r \in Requests, o \in AggOutcomes : SyncSettled(r, o)
    \/ \E r \in Requests : SyncPutSettled(r)
    \/ \E r \in Requests : SyncPutFails(r)
    \/ \E r \in Requests, o \in AggOutcomes : BgSettled(r, o)
    \/ \E r \in Requests : BgPutSettled(r)
    \/ \E r \in Requests : BgPutFails(r)
    \/ \E r \in Requests : InvocationEnds(r)
    \/ WarmTick

SpecWarm == WarmInit /\ [][WarmNext]_vars

\* requests keep arriving and invocations end; the store answers in the
\* end; the provider answers successfully in the end
SpecWarmLive ==
    /\ SpecWarm
    /\ WF_vars(\E r \in Requests : BadgeStart(r))
    /\ WF_vars(\E r \in Requests : InvocationEnds(r))
    /\ SF_vars(\E r \in Requests : BadgeGot(r))
    /\ SF_vars(\E r \in Requests, o \in AggOutcomes : ~o.threw /\ BgSettled(r, o))
    /\ SF_vars(\E r \in Requests : BgPutSettled(r))
    /\ SF_vars(\E r \in Requests, o \in AggOutcomes : ~o.threw /\ SyncSettled(r, o))
    /\ SF_vars(\E r \in Requests : SyncPutSettled(r))

---------------------------------------------------------------------------
(* Claims about the aggregation engine, under SpecAgg *)

\* C1: in one aggregation run the number of repositories for which a
\* commit-history query (getRepoCommits) is issued, owned pass and
\* organization pass together, never exceeds 20.
C1_QueriesAtMostTwenty == aQueries.owned + aQueries.org <= MaxProcessed


\* the run has ended, with a result or with the error of the owned listing
RunEnded == gc.pc \in {"done", "raised"}

\* C11: with the provider and the configuration fixed (and the same
\* window), the result of a run (total count, sources.owned, sources.org,
\* or the error it raises) does not depend on the order in which the
\* concurrent queries of a batch and the concurrent organization listings
\* complete, and a second run ends exactly as the first did.
C11_ResultIndependentOfOrder ==
    (RunEnded /\ gc.run = 2) =>
        /\ (gc.pc = "raised") = gc.first.raised
        /\ gc.ret = gc.first.ret

\* a second run has ended after two organization listings and several
\* batches, with commits from both passes
C11_Witness ==
    /\ RunEnded /\ gc.run = 2 /\ gc.pc = "done"
    /\ gc.ret = gc.first.ret
    /\ gc.ret.sources.owned > 1 /\ gc.ret.sources.org > 1
    /\ Len(go.filteredOrgs) = 2
    /\ Len(gc.reposToProcess) > BatchSizeOf(aCfg.githubToken)
    /\ gc.ret.commits > gc.ret.sources.owned + gc.ret.sources.org

\* the histories for which the commits request fails: retries exhausted,
\* a non-success status, a malformed body
FailingKinds == {"threw", "conflict", "malformed"}

\* the qualifying commits of the monitored user in each kind of history
KindCount(kind) ==
    CASE kind = "two" -> 2
      [] kind = "mixed" -> 1
      [] kind = "full" -> CommitsPerPage
      [] OTHER -> 0

RECURSIVE SumOwnedKinds(_)
SumOwnedKinds(repos) ==
    IF repos = <<>> THEN 0
    ELSE KindCount(ProviderKind(aProv, Head(repos).name)) + SumOwnedKinds(Tail(repos))

RECURSIVE SumOrgKinds(_)
SumOrgKinds(entries) ==
    IF entries = <<>> THEN 0
    ELSE KindCount(ProviderKind(aProv, Head(entries).repo.name)) + SumOrgKinds(Tail(entries))

\* C17: a commits request that exhausts its retries, answers a
\* non-success status or a malformed body makes getRepoCommits return 0
\* and never ends the run: a run raises only when the owned listing
\* fails, and a run that returns has queried every selected repository
\* of both passes and returns the sum of their counts.
C17_FailedQueryCountsZero ==
    /\ \A k \in DOMAIN gc.results \ gc.pending :
          ProviderKind(aProv, gc.reposToProcess[k].name) \in FailingKinds =>
              gc.results[k] = 0
    /\ \A k \in DOMAIN go.results \ go.pending :
          ProviderKind(aProv, go.allOrgRepos[k].repo.name) \in FailingKinds =>
              go.results[k] = 0
    /\ gc.pc = "raised" =>
          aProv.ownedOutcome \in {"threw", "malformed", "object", "falsy", "nullEntry"}
    /\ gc.pc = "done" =>
          /\ aQueries.owned = Len(gc.reposToProcess)
          /\ aQueries.org = Len(go.allOrgRepos)
          /\ gc.ret.commits = SumOwnedKinds(gc.reposToProcess)
                                  + SumOrgKinds(go.allOrgRepos)

\* a run with failing queries in its first owned batch and in the
\* organization pass has gone through later batches and returned commits
C17_Witness ==
    /\ gc.pc = "done"
    /\ Len(gc.reposToProcess) > 2 * BatchSizeOf(aCfg.githubToken)
    /\ \E k \in 1..BatchSizeOf(aCfg.githubToken) :
          ProviderKind(aProv, gc.reposToProcess[k].name) = "threw"
    /\ \E k \in 1..Len(go.allOrgRepos) :
          ProviderKind(aProv, go.allOrgRepos[k].repo.name) = "malformed"
    /\ gc.ret.commits > CommitsPerPage
    /\ gc.ret.sources.org > 0

\* the most queries one batch may hold: 5 with a credential, 3 without
BatchLimit == IF aCfg.githubToken # Undefined THEN 5 ELSE 3

\* queries are started in this step: none was in flight, at most
\* BatchLimit are started, and they are the next consecutive positions
StartsOneBatch(started, startedNext, pending, pendingNext) ==
    startedNext > started =>
        /\ pending = {}
        /\ startedNext - started <= BatchLimit
        /\ pendingNext = (started + 1)..startedNext

\* C20: in both passes the commit-count queries are issued in consecutive
\* batches of at most 5 (credential set) or 3 (none), and no query of the
\* next batch is started until every query of the current one has completed.
C20_BatchesOneAtATime ==
    [][/\ StartsOneBatch(aQueries.owned, aQueries'.owned, gc.pending, gc'.pending)
       /\ StartsOneBatch(aQueries.org, aQueries'.org, go.pending, go'.pending)
       /\ (aQueries'.org > aQueries.org => gc.pending = {})]_vars

\* without a credential: the owned pass took more than one batch and the
\* organization pass is in its second batch, with queries in flight
C20_Witness ==
    /\ aCfg.githubToken = Undefined
    /\ Len(gc.reposToProcess) > 3
    /\ gc.pc = "orgBatch"
    /\ go.i = 3
    /\ go.pending # {}
    /\ aQueries.org > 3

\* the provider calls of the run that are in flight: listings and queries
ListingsInFlight ==
    IF gc.pc \in {"ownedList", "orgsList"} THEN 1
    ELSE IF gc.pc = "orgRepoLists" THEN Cardinality(go.orgPending)
    ELSE 0

QueriesInFlight ==
    IF gc.pc = "ownedBatch" THEN Cardinality(gc.pending)
    ELSE IF gc.pc = "orgBatch" THEN Cardinality(go.pending)
    ELSE 0

\* C21: the only provider calls in flight together are the commit queries
\* of one batch (at most 5 with a credential, 3 without); a listing (owned
\* repositories, organizations, one organization's repositories) is in
\* flight alone.
C21_ListingsInFlightAlone ==
    /\ QueriesInFlight <= BatchLimit
    /\ ListingsInFlight <= 1
    /\ ListingsInFlight = 1 => QueriesInFlight = 0

\* C22: in every result sources.owned + sources.org <= 20 and
\* sources.org <= 20 - sources.owned; while the run goes on the contributing
\* repositories admitted by the two passes never number more than 20.
C22_SourcesWithinCeiling ==
    /\ gc.repoSources.owned + go.processedOrgRepos <= 20
    /\ gc.pc = "done" =>
          /\ gc.ret.sources.owned + gc.ret.sources.org <= 20
          /\ gc.ret.sources.org <= 20 - gc.ret.sources.owned

\* both passes contributed, the ceiling is reached, and the first
\* organization alone listed more eligible repositories than were left
C22_Witness ==
    /\ gc.pc = "done"
    /\ gc.ret.sources.owned > 0
    /\ gc.ret.sources.org > 0
    /\ gc.ret.sources.owned + gc.ret.sources.org = 20
    /\ Len(go.orgReposResults) > 0
    /\ Len(go.orgReposResults[1].repos) > go.maxRepos

\* an organization-pass call (organization listing, an organization's
\* repository listing, a commit query) is in flight, or the pass pauses
\* between two of them
InOrgPass ==
    gc.pc \in {"orgsList", "orgRepoLists", "orgBatch", "orgPause", "orgListPause"}

OrgPassAllowed == aCfg.includeOrgRepos = TRUE /\ gc.repoSources.owned < 20

\* C23: the organization pass issues no provider call unless organization
\* inclusion is enabled and the owned pass ended with fewer than 20
\* contributing repositories.
C23_OrgPassOnlyWhenAllowed ==
    /\ InOrgPass => OrgPassAllowed
    /\ aQueries.org > 0 => OrgPassAllowed
    /\ (gc.pc = "done" /\ ~OrgPassAllowed) => (go = GoIdle /\ gc.ret.sources.org = 0)

\* inclusion is enabled but the owned pass ended with 20 contributing
\* repositories: the run returned without any organization call
C23_Witness ==
    /\ gc.pc = "done"
    /\ aCfg.includeOrgRepos
    /\ gc.ret.sources.owned = 20
    /\ aProv.nOrgs > 0
    /\ go = GoIdle
    /\ aQueries.org = 0

\* the counts a settled batch holds: their sum and how many are > 0
RECURSIVE SumOver(_, _)
SumOver(results, ps) ==
    IF ps = {} THEN 0
    ELSE LET k == CHOOSE x \in ps : TRUE
         IN  results[k] + SumOver(results, ps \ {k})

SumReturned(results) == SumOver(results, DOMAIN results)
Contributing(results) == Cardinality({k \in DOMAIN results : results[k] > 0})

\* C24: when a batch has settled, the total grows by the sum of the counts
\* its queries returned and the source's counter by the number of counts
\* > 0 (a count of 0 changes neither); the total and the counters change
\* at no other step; the result carries the total of both passes and the
\* two counters.
C24_TotalsFollowReturnedCounts ==
    [][/\ (gc.pc = "ownedBatch" /\ gc'.pc # "ownedBatch") =>
              /\ gc'.totalCommits = gc.totalCommits + SumReturned(gc.results)
              /\ gc'.repoSources.owned = gc.repoSources.owned + Contributing(gc.results)
       /\ (gc.pc = "orgBatch" /\ gc'.pc # "orgBatch") =>
              /\ go'.totalOrgCommits = go.totalOrgCommits + SumReturned(go.results)
              /\ go'.processedOrgRepos = go.processedOrgRepos + Contributing(go.results)
       /\ (gc'.pc # "idle" /\ gc'.repoSources.owned # gc.repoSources.owned) =>
              gc.pc = "ownedBatch"
       /\ (go' # GoIdle /\ <<go'.totalOrgCommits, go'.processedOrgRepos>>
                              # <<go.totalOrgCommits, go.processedOrgRepos>>) =>
              gc.pc = "orgBatch"
       /\ (gc.pc # "done" /\ gc'.pc = "done") =>
              /\ gc'.ret.sources.owned = gc'.repoSources.owned
              /\ gc'.ret.sources.org = go'.processedOrgRepos
              /\ gc'.ret.commits =
                    (IF InOrgPass THEN gc.totalCommits ELSE gc'.totalCommits)
                        + go'.totalOrgCommits]_vars

\* a run returned after both passes, each with a repository that
\* returned 0 and one that returned more
C24_Witness ==
    /\ gc.pc = "done"
    /\ gc.ret.sources.owned > 0
    /\ gc.ret.sources.owned < Len(gc.reposToProcess)
    /\ gc.ret.sources.org > 0
    /\ gc.ret.sources.org < Len(go.allOrgRepos)
    /\ gc.ret.commits > gc.ret.sources.owned + gc.ret.sources.org

\* the repository may be queried: not excluded by name, and last updated
\* at `since` or later
Eligible(repo) ==
    /\ repo.name \notin aCfg.excludeRepos
    /\ DateParse(repo.updated_at) >= SinceOf(aCfg.now, aCfg.monitoringDays)

\* C25: in both passes every repository a commit query is issued for is
\* outside the repository exclusion list and was last updated at `since`
\* or later, and every organization whose repositories are listed is
\* outside the organization exclusion list.
C25_ExcludedNeverQueried ==
    /\ \A k \in DOMAIN gc.results : Eligible(gc.reposToProcess[k])
    /\ \A k \in DOMAIN go.results : Eligible(go.allOrgRepos[k].repo)
    /\ \A j \in DOMAIN go.orgReposResults :
          go.orgReposResults[j].org \notin aCfg.excludeOrgs

\* the repository of a listing carries an excluded name and was last
\* updated at `since` or later: only its name keeps it from being queried
ExcludedByNameOnly(repo) ==
    /\ repo.name \in aCfg.excludeRepos
    /\ DateParse(repo.updated_at) >= SinceOf(aCfg.now, aCfg.monitoringDays)

\* organization 1 is excluded and organization 2 was listed; the owned
\* listing and the listing of organization 2 each held a repository
\* excluded by its name only and one updated before `since`; the
\* organization queries are in flight for the repositories listed after
\* the excluded one, and none is in flight for it
C25_Witness ==
    /\ gc.pc = "orgBatch"
    /\ go.pending # {}
    /\ aCfg.excludeOrgs = {1}
    /\ aProv.nOrgs = 2
    /\ Len(go.orgReposResults) = 1
    /\ aProv.ownedPattern = "varied"
    /\ aProv.ownedLen >= 5
    /\ aProv.orgPattern = "varied"
    /\ Len(gc.reposToProcess) < aProv.ownedLen - 1
    /\ \E k \in 1..aProv.ownedLen :
          ExcludedByNameOnly(MkRepo(0, aProv.ownedPattern, k, gc.since))
    /\ LET listed == go.orgReposResults[1]
       IN  /\ ~listed.isNull
           /\ listed.org = 2
           /\ \E k \in DOMAIN listed.repos :
                 /\ ExcludedByNameOnly(listed.repos[k])
                 /\ \E m \in DOMAIN listed.repos :
                       /\ m > k
                       /\ \E n \in go.pending :
                             go.allOrgRepos[n].repo = listed.repos[m]
           /\ \A n \in DOMAIN go.allOrgRepos :
                 go.allOrgRepos[n].repo.name \notin aCfg.excludeRepos

\* the thresholds a deployment may configure (healthy, moderate)
SnapshotThresholds == {<<15, 5>>, <<1, 1>>, <<100, 20>>}

\* the tier the claim names for a count
TierOf(commits, th) ==
    IF commits >= th[1] THEN "healthy"
    ELSE IF commits >= th[2] THEN "moderate"
    ELSE "inactive"

\* C33: the snapshot built from the result of a run (the value both the
\* request and the background run put) has status = the tier of its
\* count under the run's thresholds, commits >= sources.owned +
\* sources.org, commits <= 100 * (sources.owned + sources.org), and
\* commits = 0 exactly when sources.owned + sources.org = 0.
C33_SnapshotCountsConsistent ==
    gc.pc = "done" =>
        \A th \in SnapshotThresholds :
            LET data == BuildData(gc.ret, [healthyThreshold |-> th[1],
                                           moderateThreshold |-> th[2]], aCfg.now)
                n == data.sources.owned + data.sources.org
            IN  /\ data.status = TierOf(data.commits, th)
                /\ data.commits >= n
                /\ data.commits <= 100 * n
                /\ (data.commits = 0) <=> (n = 0)

\* a run returned with a full page of 100 counted for one repository,
\* other repositories counted for less, in both passes
C33_Witness ==
    /\ gc.pc = "done"
    /\ gc.ret.sources.owned > 1
    /\ gc.ret.sources.org > 1
    /\ gc.ret.commits > 100
    /\ gc.ret.commits < 100 * (gc.ret.sources.owned + gc.ret.sources.org)
    /\ \E k \in 1..Len(gc.reposToProcess) :
          ProviderKind(aProv, gc.reposToProcess[k].name) = "full"

\* the repositories the organization listings returned that pass the
\* date and exclusion tests
OrgReposOffered ==
    FlattenOrgReposUncapped(go.orgReposResults, <<>>, 0, aCfg.excludeRepos, gc.since)

\* C35: the organization pass admits at most maxRepos = 20 - (owned
\* repositories counted) candidates over all organizations together, the
\* list is complete before the first commit query, only admitted
\* candidates are queried, and so at most maxRepos queries are issued.
C35_OrgCandidatesCapped ==
    /\ InOrgPass => go.maxRepos = MaxProcessed - gc.repoSources.owned
    /\ Len(go.allOrgRepos) <= go.maxRepos
    /\ aQueries.org <= Len(go.allOrgRepos)
    /\ go.pending \subseteq 1..Len(go.allOrgRepos)
    /\ gc.pc = "orgRepoLists" => (go.allOrgRepos = <<>> /\ aQueries.org = 0)
    /\ (gc.pc = "done" /\ go.allOrgRepos # <<>>) =>
          LET offered == OrgReposOffered
          IN  /\ Len(go.allOrgRepos) <= Len(offered)
              /\ go.allOrgRepos = SubSeq(offered, 1, Len(go.allOrgRepos))

\* the owned-repository listing answers a non-success status that
\* fetchWithRetry hands back (404)
OwnedListingRefused == aProv.ownedOutcome = "status"

\* the controller's configuration with thresholds th = <<high, mid>>
SnapshotConfig(th) ==
    [username |-> aCfg.username, healthyThreshold |-> th[1],
     moderateThreshold |-> th[2], cacheTTL |-> DaySecs, jstUpdateHour |-> 0]

\* C36: when the owned listing answers a non-retryable non-success status
\* the run does not raise; the owned pass queries nothing and counts 0
\* commits and 0 repositories; the returned result is built into a snapshot
\* and put, whatever the store held (count 0 and tier inactive when the
\* organization pass is off and the moderate threshold is positive).
C36_RefusedOwnedListingStillPersists ==
    OwnedListingRefused =>
        /\ gc.pc # "raised"
        /\ aQueries.owned = 0
        /\ gc.repoSources.owned = 0
        /\ gc.reposToProcess = <<>>
        /\ gc.pc \notin {"idle", "ownedList", "done"} => InOrgPass
        /\ InOrgPass => gc.totalCommits = 0
        /\ gc.pc = "done" =>
              /\ gc.ret.sources.owned = 0
              /\ gc.ret.commits = (IF aCfg.includeOrgRepos THEN go.totalOrgCommits ELSE 0)
              /\ \A th \in SnapshotThresholds :
                    LET a == AfterCommitCount([threw |-> FALSE, result |-> gc.ret],
                                              SnapshotConfig(th), aCfg.now)
                        put == KvPut(a.data, PutOptions(SnapshotConfig(th)), aCfg.now)
                    IN  /\ a.pc = "put"
                        /\ put.present
                        /\ put.value = a.data
                        /\ a.data.commits = gc.ret.commits
                        /\ ~aCfg.includeOrgRepos =>
                              (a.data.commits = 0 /\ a.data.status = "inactive")

\* the owned listing was refused and the run returned: once with the
\* organization pass off, a count of 0 and no repositories
C36_Witness ==
    /\ OwnedListingRefused
    /\ gc.pc = "done"
    /\ ~aCfg.includeOrgRepos
    /\ gc.ret = [commits |-> 0, sources |-> [owned |-> 0, org |-> 0]]
    /\ gc.run = 2
    /\ ~gc.first.raised

---------------------------------------------------------------------------
(* Claims about the Repository Commit Counter's filter, under SpecFilter *)

\* C12: an entry with two or more parents is never counted, whatever its
\* author login, display name and email, the monitored login included.
C12_MergeCommitsNotCounted ==
    (pPc = "out" /\ Len(pArgs.commit.parents) >= 2) => pOut = 0

\* a merge commit authored by the monitored login was not counted
C12_Witness ==
    /\ pPc = "out" /\ Len(pArgs.commit.parents) = 2
    /\ pArgs.commit.author.login = pArgs.username
    /\ pArgs.commit.commit.author.name = AliceName
    /\ pArgs.commit.commit.author.email = AliceMail
    /\ pOut = 0

\* the entry's login, display name and email match no bot pattern
NoBotPattern(commit) ==
    ~isBotAccount(commit.author.login, commit.commit.author.name,
                  commit.commit.author.email)

\* C13: an entry with at most one parent that matches no bot pattern is
\* counted exactly when its author login is present and equal, case
\* included, to the monitored login; an absent or different login is not
\* counted even when the name or email are the monitored user's.
C13_CountedIffLoginEqual ==
    (pPc = "out" /\ Len(pArgs.commit.parents) <= 1 /\ NoBotPattern(pArgs.commit)) =>
        (pOut = 1) = (pArgs.commit.author.login # Undefined
                      /\ pArgs.commit.author.login = pArgs.username)

\* an entry whose login differs from the monitored login only by case,
\* carrying the user's name and email, was not counted
C13_Witness ==
    /\ pPc = "out" /\ Len(pArgs.commit.parents) <= 1 /\ NoBotPattern(pArgs.commit)
    /\ pArgs.username = Alice
    /\ pArgs.commit.author.login = AliceName
    /\ pArgs.commit.commit.author.email = AliceMail
    /\ pOut = 0

---------------------------------------------------------------------------
(* Claims about isBotAccount, under SpecBot *)

StartsWith(s, p) == Len(s) >= Len(p) /\ SubSeq(s, 1, Len(p)) = p

\* the login, case aside, ends with [bot], ends with -bot or starts with bot-
BotLikeLogin(login) ==
    /\ Truthy(login)
    /\ \/ EndsWith(toLowerCase(login), <<"[", "b", "o", "t", "]">>)
       \/ EndsWith(toLowerCase(login), <<"-", "b", "o", "t">>)
       \/ StartsWith(toLowerCase(login), <<"b", "o", "t", "-">>)

\* C14: isBotAccount flags every identity whose login ends with [bot],
\* ends with -bot or starts with bot-, whether the display name and the
\* email are present or absent, the login-only check included.
C14_BotLikeLoginFlagged ==
    (pPc = "out" /\ BotLikeLogin(pArgs.login)) => pOut = TRUE

---------------------------------------------------------------------------
(* Claims about the status classifier, under SpecStatus *)

\* C15: getHealthStatus answers healthy exactly when count >= the healthy
\* threshold, moderate exactly when count is below it and >= the moderate
\* threshold, inactive otherwise; both boundaries are inclusive.
C15_TierByInclusiveThresholds ==
    pPc = "out" =>
        /\ (pOut = "healthy") = (pArgs.commits >= pArgs.healthyThreshold)
        /\ (pOut = "moderate") = (/\ pArgs.commits < pArgs.healthyThreshold
                                  /\ pArgs.commits >= pArgs.moderateThreshold)
        /\ (pOut = "inactive") = (/\ pArgs.commits < pArgs.healthyThreshold
                                  /\ pArgs.commits < pArgs.moderateThreshold)

\* thresholds 15 and 5: a count of exactly 5 was classified moderate
C15_Witness ==
    /\ pPc = "out"
    /\ pArgs.healthyThreshold = 15 /\ pArgs.moderateThreshold = 5
    /\ pArgs.commits = 5
    /\ pOut = "moderate"

---------------------------------------------------------------------------
(* Claims about the cache controller, under SpecCache *)

Tiers == {"healthy", "moderate", "inactive"}

\* the request has passed its store lookup
HasRead(r) == reqs[r].gotStore
\* the request has been answered
Answered(r) == reqs[r].pc = "done"
\* the lookup of the request returned a snapshot
ReadSnapshot(r) == HasRead(r) /\ reqs[r].cached.present
\* the verdict of the freshness policy on what the request read
JudgedStale(r) ==
    shouldUpdateCache(reqs[r].cached.value.lastUpdated, reqs[r].readAt,
                      cCfg.jstUpdateHour)
\* the response carries the count and tier of `data`
Carries(r, data) ==
    /\ reqs[r].resp.kind = "ok"
    /\ reqs[r].resp.commits = data.commits
    /\ reqs[r].resp.status = data.status
\* the identity is configured and not bot-like
IdentityServed ==
    Truthy(cCfg.username) /\ ~isBotAccount(cCfg.username, Undefined, Undefined)
\* a complete snapshot: count, tier, lastUpdated and sources, consistent
CompleteSnapshot(data) ==
    /\ data.commits \in Nat
    /\ data.status \in Tiers
    /\ data.status = getHealthStatus(data.commits, cCfg.healthyThreshold,
                                     cCfg.moderateThreshold)
    /\ toISOString(DateParse(data.lastUpdated)) = data.lastUpdated
    /\ data.sources.owned \in Nat /\ data.sources.org \in Nat
\* the entries put so far by runs other than the background run of r
PutsExceptRun(r) ==
    {reqs[q].put : q \in {x \in Requests : reqs[x].puts > 0}}
        \cup {runs[q].put : q \in {x \in Requests : x # r /\ runs[x].puts > 0}}
AllPuts ==
    {reqs[q].put : q \in {x \in Requests : reqs[x].puts > 0}}
        \cup {runs[q].put : q \in {x \in Requests : runs[x].puts > 0}}

\* C2: a request that reads a snapshot the freshness policy judges stale
\* answers with the stored count and tier and hands a background
\* aggregation run to the host in the same step; when the response is
\* produced that run has neither settled a provider call nor finished.
C2_StaleServedWhileRevalidating ==
    \A r \in Requests :
        (Answered(r) /\ ReadSnapshot(r) /\ JudgedStale(r)) =>
            /\ Carries(r, reqs[r].cached.value)
            /\ reqs[r].scheduled
            /\ reqs[r].runPcAtResp = "agg"
            /\ runs[r].pc \in {"agg", "put", "done", "failed"}
            /\ runs[r].startedAt = reqs[r].readAt
            /\ reqs[r].calls = 0 /\ reqs[r].puts = 0

\* C3: a request that finds no snapshot (identity configured, not
\* bot-like) runs the aggregation itself; its success response follows
\* the completed put of the classified snapshot with the configured TTL
\* and carries that snapshot's count and tier; it answers 500 only when
\* the aggregation or the put threw.
C3_ColdStartComputesThenServes ==
    \A r \in Requests :
        (Answered(r) /\ HasRead(r) /\ ~reqs[r].cached.present /\ IdentityServed) =>
            /\ reqs[r].calls = 1
            /\ ~reqs[r].scheduled /\ runs[r].pc = "none"
            /\ \/ /\ reqs[r].puts = 1 /\ reqs[r].putBeforeResp
                  /\ reqs[r].put.value = reqs[r].data
                  /\ reqs[r].put.expiresAt = reqs[r].put.putAt + cCfg.cacheTTL
                  /\ reqs[r].data.status =
                        getHealthStatus(reqs[r].data.commits, cCfg.healthyThreshold,
                                        cCfg.moderateThreshold)
                  /\ Carries(r, reqs[r].put.value)
               \/ /\ reqs[r].puts = 0 /\ ~reqs[r].putBeforeResp
                  /\ reqs[r].resp = ErrorResponse("error500")

\* C4: a request that reads a snapshot the freshness policy judges fresh
\* answers with the stored count and tier, issues no provider call,
\* schedules no background run and puts nothing.
C4_FreshServedUntouched ==
    \A r \in Requests :
        (Answered(r) /\ ReadSnapshot(r) /\ ~JudgedStale(r)) =>
            /\ Carries(r, reqs[r].cached.value)
            /\ reqs[r].calls = 0 /\ reqs[r].puts = 0
            /\ ~reqs[r].scheduled
            /\ runs[r] = RunNone

\* C5: a background run whose aggregation or put throws ends caught: it
\* has put nothing, the store still holds an entry put by another run, and
\* the request that scheduled it, like every request that read a snapshot
\* and did not compute in its own turn, has the answer the handler gives
\* for the snapshot it read, whatever the background runs did: no response
\* is an error because of a background run.
C5_BackgroundFailureAbsorbed ==
    /\ \A r \in Requests :
          (runs[r].threw \/ runs[r].putFailed) =>
              /\ runs[r].pc = "failed"
              /\ runs[r].puts = 0
              /\ store.present /\ store \in PutsExceptRun(r)
              /\ reqs[r].resp = Respond(cCfg, reqs[r].cached.value)
    /\ \A q \in Requests :
          (Answered(q) /\ ReadSnapshot(q) /\ reqs[q].calls = 0) =>
              reqs[q].resp = Respond(cCfg, reqs[q].cached.value)

\* a background run has failed and the snapshot its request read is
\* still the store's entry
C5_Witness ==
    \E r \in Requests :
        /\ runs[r].pc = "failed"
        /\ store.present /\ store.value = reqs[r].cached.value
        /\ reqs[r].resp.kind = "ok"

\* C6: every run puts at most once, only after its aggregation and
\* classification, a complete snapshot; a run that failed has put
\* nothing; the store holds nothing or the entry put by one completed run.
C6_OnePutOfCompleteSnapshot ==
    /\ \A r \in Requests :
          /\ reqs[r].puts <= 1 /\ runs[r].puts <= 1
          /\ reqs[r].puts = 1 =>
                /\ reqs[r].pc = "done" /\ ~reqs[r].threw
                /\ reqs[r].put.value = reqs[r].data
                /\ CompleteSnapshot(reqs[r].put.value)
          /\ runs[r].puts = 1 =>
                /\ runs[r].pc = "done" /\ ~runs[r].threw /\ ~runs[r].putFailed
                /\ runs[r].put.value = runs[r].data
                /\ CompleteSnapshot(runs[r].put.value)
          /\ reqs[r].threw => reqs[r].puts = 0
          /\ (reqs[r].resp = ErrorResponse("error500")
                /\ ~isValidBadgeStyleThrows(cCfg.build)) => reqs[r].puts = 0
          /\ runs[r].pc \in {"failed", "skipped"} => runs[r].puts = 0
    /\ \/ store = StoreEmpty
       \/ store \in AllPuts /\ CompleteSnapshot(store.value)

\* a background run has replaced the snapshot a synchronous run had put
C6_Witness ==
    \E r, q \in Requests :
        /\ reqs[r].puts = 1 /\ runs[q].puts = 1
        /\ store = runs[q].put /\ store # reqs[r].put


\* the request started an aggregation run, itself or in the background
StartedRun(r) == reqs[r].calls > 0 \/ runs[r].calls > 0
\* the instant the snapshot read by the request was computed
ComputedAt(r) == DateParse(reqs[r].cached.value.lastUpdated)

\* C8 (as claimed): no two aggregation runs, synchronous or background,
\* are started on the same UTC+9 calendar day.
C8_OneRunPerDay == ~hist.dupDay

\* C8 (amended): a request starts at most one aggregation run, and starts
\* one only when its lookup finds no live snapshot or a snapshot computed
\* on another UTC+9 calendar day than the request; a request that reads a
\* snapshot computed on its own UTC+9 day starts none.
C8_RunOnlyWithoutSameDaySnapshot ==
    \A r \in Requests :
        /\ reqs[r].calls + runs[r].calls <= 1
        /\ (HasRead(r) /\ StartedRun(r)) =>
              \/ ~reqs[r].liveAtRead
              \/ JstDay(ComputedAt(r)) # JstDay(reqs[r].readAt)

\* a request read a live snapshot computed on an earlier UTC+9 day, less
\* than 24 hours old, and started the second run of the history
C8_Witness ==
    \E q \in Requests :
        /\ ReadSnapshot(q) /\ reqs[q].liveAtRead /\ runs[q].calls = 1
        /\ JstDay(ComputedAt(q)) # JstDay(reqs[q].readAt)
        /\ reqs[q].readAt - ComputedAt(q) <= StaleCeiling
        /\ Cardinality(hist.startDays) = 2

\* C9: a request that arrives after a snapshot has been persisted never
\* runs the aggregation synchronously.
C9_NeverBlocksAfterFirstPut ==
    \A r \in Requests : reqs[r].afterPut => reqs[r].calls = 0

\* C10 (as claimed): every snapshot served from the store was computed at
\* most 24 hours before the request that serves it.
C10_ServedAtMostOneDayOld ==
    \A r \in Requests :
        (Answered(r) /\ ReadSnapshot(r) /\ reqs[r].resp.kind = "ok") =>
            reqs[r].readAt - ComputedAt(r) <= StaleCeiling

\* C10 (amended): every snapshot served from the store was put less than
\* cacheTTL seconds before the lookup that serves it, and was computed no
\* later than it was put; its age at serve time is bounded by the TTL
\* (plus the duration of the put), not by 24 hours.
C10_ServedWithinTtlOfPut ==
    \A r \in Requests :
        (Answered(r) /\ ReadSnapshot(r) /\ reqs[r].resp.kind = "ok") =>
            /\ reqs[r].readAt - reqs[r].cached.putAt < cCfg.cacheTTL
            /\ reqs[r].readAt >= reqs[r].cached.putAt
            /\ ComputedAt(r) <= reqs[r].cached.putAt

\* a snapshot older than 24 hours has been served within its TTL
C10_Witness ==
    \E r \in Requests :
        /\ Answered(r) /\ ReadSnapshot(r) /\ reqs[r].resp.kind = "ok"
        /\ reqs[r].readAt - ComputedAt(r) > StaleCeiling
        /\ reqs[r].readAt - reqs[r].cached.putAt < cCfg.cacheTTL

\* the login by itself matches one of the bot patterns: a vendor fragment,
\* a [bot] or -bot suffix, a bot- prefix
LoginMatchesBotPattern(login) ==
    /\ Truthy(login)
    /\ \/ BotLikeLogin(login)
       \/ \E p \in BotFragments : Contains(toLowerCase(login), p)

\* C16: a request that finds no snapshot while the monitored login by
\* itself matches a bot pattern is refused with the rejection error; it
\* makes no provider call and puts nothing.
C16_BotIdentityRefused ==
    \A r \in Requests :
        (HasRead(r) /\ ~reqs[r].cached.present
                    /\ LoginMatchesBotPattern(cCfg.username)) =>
            /\ Answered(r)
            /\ reqs[r].resp = ErrorResponse("botRejected400")
            /\ reqs[r].calls = 0 /\ reqs[r].puts = 0

\* C28: when getCommitCount raises (its owned-repository listing has
\* exhausted the retry budget), a cold-start request ends in the error
\* response with nothing put, a background run ends caught with nothing
\* put, the step leaves the store entry as it was, and the failed run
\* does nothing afterwards.
C28_RaisedRunPersistsNothing ==
    [][\A r \in Requests :
          /\ (reqs[r].pc = "agg" /\ reqs'[r].threw) =>
                /\ reqs'[r].pc = "done"
                /\ reqs'[r].resp = ErrorResponse("error500")
                /\ reqs'[r].puts = 0
                /\ store' = store
          /\ (runs[r].pc = "agg" /\ runs'[r].threw) =>
                /\ runs'[r].pc = "failed"
                /\ runs'[r].puts = 0
                /\ store' = store
                /\ reqs' = reqs
          /\ reqs[r].threw => reqs'[r] = reqs[r]
          /\ runs[r].threw => runs'[r] = runs[r]]_vars

\* the first request's cold-start run raised and it was answered with the
\* error; nothing was persisted, so the second request found no snapshot
\* and is computing in its turn
C28_Witness ==
    /\ reqs[1].threw
    /\ reqs[1].resp = ErrorResponse("error500")
    /\ store = StoreEmpty
    /\ ~hist.everPut
    /\ reqs[2].gotStore /\ ~reqs[2].cached.present
    /\ reqs[2].pc = "agg"

\* C31: when the store holds a snapshot for a monitored login that matches
\* a bot pattern, a request is answered with success and the stored
\* snapshot, and the background revalidation it triggers returns without
\* a provider call and without a put.
C31_BotRevalidationSkipped ==
    \A r \in Requests :
        (ReadSnapshot(r) /\ LoginMatchesBotPattern(cCfg.username)) =>
            /\ Answered(r)
            /\ Carries(r, reqs[r].cached.value)
            /\ runs[r].pc \in {"none", "skipped"}
            /\ runs[r].calls = 0
            /\ runs[r].puts = 0

\* C34: under any interleaving of the runs of one identity, no put
\* replaces the stored snapshot with one whose lastUpdated is earlier.
C34_LastUpdatedNeverBackwards ==
    [][(store.present /\ store'.present) =>
          DateParse(store'.value.lastUpdated) >= DateParse(store.value.lastUpdated)]_vars

\* the run whose put is pending with snapshot `data`, started at `started`
PendingPut(data, started) ==
    \E r \in Requests :
        \/ reqs[r].pc = "put" /\ reqs[r].data = data /\ reqs[r].readAt = started
        \/ runs[r].pc = "put" /\ runs[r].data = data /\ runs[r].startedAt = started

\* C34 (as the code has it): the store changes only by the put of a run,
\* which stores the snapshot that run stamped when its aggregation settled,
\* never later than the put; lastUpdated moves backwards only when the
\* replaced snapshot was stamped after the putting run had started, that
\* is only between overlapping runs.
C34_PutsInCompletionOrder ==
    [][store' # store =>
          /\ store'.present
          /\ DateParse(store'.value.lastUpdated) <= clock
          /\ \E started \in {reqs[r].readAt : r \in Requests}
                              \cup {runs[r].startedAt : r \in Requests} :
                /\ PendingPut(store'.value, started)
                /\ (store.present /\ DateParse(store'.value.lastUpdated)
                                        < DateParse(store.value.lastUpdated))
                      => DateParse(store.value.lastUpdated) >= started]_vars

\* a run that settled first has put last: the stored snapshot is older than
\* the one another request put before it
C34_Witness ==
    /\ store.present
    /\ \E r \in Requests :
          /\ reqs[r].puts = 1
          /\ reqs[r].put.present
          /\ DateParse(reqs[r].put.value.lastUpdated)
                > DateParse(store.value.lastUpdated)

---------------------------------------------------------------------------
(* Claims about revalidation, under SpecWarm *)

\* the background run of the request is in flight
InFlight(r) == runs[r].pc \in {"agg", "put"}

\* C29: there is no per-identity mutual exclusion: every request that
\* reads a stale snapshot starts its own background run, whether or not
\* another background run is in flight, and the requests that read the
\* same stale entry are answered with the same snapshot.
C29_NoMutualExclusion ==
    \A r \in Requests :
        (Answered(r) /\ ReadSnapshot(r) /\ JudgedStale(r)) =>
            /\ runs[r].calls = 1
            /\ runs[r].pc \in {"agg", "put", "done", "failed"}
            /\ \A q \in Requests :
                  (Answered(q) /\ ReadSnapshot(q) /\ reqs[q].cached = reqs[r].cached) =>
                      /\ Carries(q, reqs[r].cached.value)
                      /\ JudgedStale(q) => runs[q].calls = 1

\* a background run has failed and the store holds the old snapshot
FailedOnOldSnapshot(r) ==
    /\ runs[r].pc = "failed"
    /\ store = WarmStore(cCfg)
    /\ reqs[r].cached.value = store.value

\* the store entry has been replaced by a snapshot with a later lastUpdated
Replaced ==
    /\ store.present
    /\ store # WarmStore(cCfg)
    /\ DateParse(store.value.lastUpdated) > DateParse(WarmStore(cCfg).value.lastUpdated)

\* C30: after a failed background run the store still holds the old
\* snapshot and the freshness policy still judges it stale, so a request
\* that reads it afterwards starts a new background run; with requests
\* that keep arriving, a store that answers and a provider that answers
\* successfully in the end, the entry is eventually replaced by a snapshot
\* with a later lastUpdated.
C30_FailedRunRetriedUntilReplaced ==
    /\ [](\A r \in Requests :
            FailedOnOldSnapshot(r) =>
                /\ shouldUpdateCache(store.value.lastUpdated, clock, cCfg.jstUpdateHour)
                /\ \A q \in Requests :
                      (ReadSnapshot(q) /\ reqs[q].readAt >= reqs[r].readAt) =>
                          runs[q].calls = 1)
    /\ (\E r \in Requests : FailedOnOldSnapshot(r)) ~> Replaced

\* one background run failed on the old snapshot; the run of a later
\* request has replaced the entry
C30_Witness ==
    \E r, q \in Requests :
        /\ r # q
        /\ runs[r].pc = "failed"
        /\ reqs[r].cached.value = WarmStore(cCfg).value
        /\ reqs[q].cached.value = WarmStore(cCfg).value
        /\ runs[q].puts = 1
        /\ store = runs[q].put
        /\ Replaced

---------------------------------------------------------------------------
(* Claims about fetchWithRetry, under SpecFetch *)

\* the attempt ended in 429, 403, a status of 500 or more, or a network failure
EndedRetryable(o) ==
    \/ o.kind = "error"
    \/ o.kind = "response" /\ (o.response.status \in {429, 403} \/ o.response.status >= 500)

FailedAttempts == {k \in 1..pArgs.maxRetries : pArgs.script[k].kind = "error"}

LastOf(S) == CHOOSE k \in S : \A m \in S : m <= k

\* C18: when every budgeted attempt ends in a retryable outcome the call
\* raises and returns no response: it raises the last captured network
\* error when some attempt failed with one, else the "failed after N
\* retries" error.
C18_ExhaustionRaises ==
    (\A k \in 1..pArgs.maxRetries : EndedRetryable(pArgs.script[k])) =>
        /\ pOut.ret = NoFetched
        /\ pPc = "out" =>
              pOut.thrown = IF FailedAttempts # {}
                            THEN pArgs.script[LastOf(FailedAttempts)].error
                            ELSE FailedAfter(pArgs.maxRetries)

\* all three attempts were made, the first failed on the network and the
\* later ones were answered with retried statuses
C18_Witness ==
    /\ pPc = "out"
    /\ pArgs.maxRetries = 3
    /\ pOut.attempts = 3
    /\ FailedAttempts = {1}
    /\ pArgs.script[3].response.status = 503
    /\ pOut.thrown = NetworkError(1)

\* C19: a response whose status is not 429, not 403 and below 500 is
\* returned at once: once the attempt has settled the call is over with
\* that response, no sleep follows it and no further attempt is made.
C19_OtherStatusReturnedAtOnce ==
    \A k \in 1..pArgs.maxRetries :
        LET o == pArgs.script[k]
        IN  (/\ o.kind = "response"
             /\ o.response.status \notin {429, 403}
             /\ o.response.status < 500
             /\ pOut.attempts = k
             /\ pPc # "fetch") =>
                /\ pPc = "out"
                /\ pOut.ret = o.response
                /\ pOut.thrown = NoError
                /\ Len(pOut.slept) = k - 1

\* a 404 on the second attempt, after one retried attempt
C19_Witness ==
    /\ pPc = "out"
    /\ pOut.attempts = 2
    /\ pOut.ret.status = 404
    /\ Len(pOut.slept) = 1
    /\ pArgs.maxRetries = 3

\* C26: whatever the attempts end in, a call makes at most maxRetries
\* attempts, and it terminates: it returns a response or raises.
C26_BoundedAttemptsThenEnds ==
    /\ [](pOut.attempts <= pArgs.maxRetries)
    /\ <>(pPc = "out" /\ (pOut.ret # NoFetched) # (pOut.thrown # NoError))

\* the whole budget of three was used on a mix of outcomes and the last
\* attempt was answered 200
C26_Witness ==
    /\ pPc = "out"
    /\ pArgs.maxRetries = 3
    /\ pOut.attempts = 3
    /\ pArgs.script[1].kind = "error"
    /\ pArgs.script[2].response.status = 429
    /\ pOut.ret.status = 200

\* the seconds a retry-after hint names, and 2^i for the attempts in reach
HintSeconds(header) == IF header = <<"2">> THEN 2 ELSE 10
TwoToThe(i) == CASE i = 0 -> 1 [] i = 1 -> 2 [] i = 2 -> 4 [] i = 3 -> 8 [] i = 4 -> 16

\* the wait the claim names for the attempt numbered i (from 0)
ClaimedWait(o, i) ==
    IF /\ o.kind = "response"
       /\ o.response.status \in {429, 403}
       /\ o.response.retryAfter # Undefined
    THEN HintSeconds(o.response.retryAfter) * 1000
    ELSE pArgs.initialDelay * TwoToThe(i)

\* C27: the wait after the attempt numbered i (from 0) is
\* initialDelay * 2^i ms after a 5xx response or a network failure; after a
\* 429 or 403 it is the retry-after hint in seconds times 1000 when there
\* is one and initialDelay * 2^i otherwise.  With 3 attempts and 500 ms the
\* exponential waits are 500, 1000 and 2000 ms.
C27_WaitsAsSpecified ==
    /\ \A k \in 1..Len(pOut.slept) :
          pOut.slept[k] = ClaimedWait(pArgs.script[k], k - 1)
    /\ (/\ pArgs.maxRetries = 3
        /\ pArgs.initialDelay = 500
        /\ \A k \in 1..3 : pArgs.script[k].response.retryAfter = Undefined) =>
          \A k \in 1..Len(pOut.slept) : pOut.slept[k] = <<500, 1000, 2000>>[k]

\* three waits: after a 403 with a hint of 10 seconds, after a 429 with a
\* hint of 2 seconds, after a 503 whose hint of 10 seconds is not read
C27_Witness ==
    /\ pPc = "out"
    /\ pArgs.maxRetries = 3
    /\ pArgs.initialDelay = 500
    /\ pArgs.script[1].response = [status |-> 403, retryAfter |-> <<"1", "0">>]
    /\ pArgs.script[2].response = [status |-> 429, retryAfter |-> <<"2">>]
    /\ pArgs.script[3].response = [status |-> 503, retryAfter |-> <<"1", "0">>]
    /\ pOut.slept = <<10000, 2000, 2000>>

---------------------------------------------------------------------------
(* Claims about the freshness policy over time, under SpecFreshLater *)

\* C32: for a stored lastUpdated not later than now and a fixed refresh
\* hour, once shouldUpdateCache has answered stale it answers stale at
\* every later instant.
C32_StaleStaysStale ==
    [][(fPc # "in" /\ fResult) => fResult']_vars

\* the snapshot was judged stale through the calendar-day rule at an
\* earlier instant and is judged again, still less than 24 hours old
C32_Witness ==
    /\ fPc = "later"
    /\ pOut
    /\ fResult
    /\ fNow - fLast < 24 * HourSecs

---------------------------------------------------------------------------
(* Claims about the freshness policy, under SpecFresh *)

\* the rule as documented: stale when more than 24 hours have passed, or
\* when the UTC+9 calendar dates (year, month, day) differ and the UTC+9
\* hour of `now` has reached the refresh hour
FreshnessRule(last, now, hour) ==
    \/ now - last > 24 * HourSecs
    \/ /\ JstDay(now) # JstDay(last)
       /\ ((now + JstOffset) % DaySecs) \div HourSecs >= hour

\* C7: for every lastUpdated, now and refresh hour, shouldUpdateCache
\* answers stale exactly when now - lastUpdated > 24h, or the UTC+9
\* calendar dates differ and the UTC+9 hour of now is >= the refresh hour.
C7_StaleExactlyByRule ==
    fPc = "out" => (fResult = FreshnessRule(fLast, fNow, fHour))

====
